---------------------------- MODULE Spec2Model ----------------------------
(***************************************************************************)
(* Model of the relay BitTorrent engine (prxssh/relay).                    *)
(*                                                                         *)
(* Part 1: the session orchestrator (package relay, session.go): the       *)
(* announce scheduling loop, the lifecycle broadcasts, per-tracker backoff *)
(* and the tracker response interval (package tracker, http.go).           *)
(* Part 2: session creation and the construction of tracker clients.       *)
(* Part 3: the bencode codec (package bencode).                            *)
(* Part 4: the torrent metainfo parser (package torrent).                  *)
(* Part 5: the peers of a tracker response (package tracker, http.go).     *)
(* Part 6: the decoding of a tracker response (package tracker, http.go).  *)
(* Part 7: the URL of an HTTP announce (package tracker, http.go).         *)
(* Part 8: the pieces of a torrent (package torrent, piece.go).            *)
(* Part 9: the handshake of the peer protocol (package torrent).           *)
(* Part 10: connecting to the peers a tracker reported (package torrent).  *)
(* Part 11: the framing of peer messages (package torrent, message.go).    *)
(* Part 12: the bitfield of the pieces a peer has (package utils).         *)
(* Part 13: the read loop of a peer connection (package torrent, peer.go). *)
(* Part 14: the methods of a Piece called concurrently, with its lock.     *)
(*                                                                         *)
(* Parts 2 to 14 examine functions and objects on their own: the argument  *)
(* is the variable input, chosen in the initial state, and the results are *)
(* collected in the variable output.                                       *)
(***************************************************************************)
EXTENDS Integers, Sequences, FiniteSets, TLC

(***************************************************************************)
(* 64-bit arithmetic.                                                      *)
(*                                                                         *)
(* Go's time.Duration is an int64 count of nanoseconds and the interval of *)
(* a tracker response is a uint32 count of seconds; both exceed the range  *)
(* of the model checker's integers.  A number is therefore a tuple of four *)
(* base-2^16 digits <<d0, d1, d2, d3>>, least significant first, with      *)
(* value d0 + d1*2^16 + d2*2^32 + d3*2^48; d0..d2 are in 0..65535 and d3   *)
(* carries the sign.  An int64 has d3 in -32768..32767; a time (an exact,  *)
(* unwrapped number of nanoseconds) may have a larger d3.                  *)
(***************************************************************************)
Base == 2^16

Half == 2^15

\* Carry propagation: the unique digit tuple of the number written by x.
Norm(x) ==
    LET c0 == x[1] \div Base
        s1 == x[2] + c0
        c1 == s1 \div Base
        s2 == x[3] + c1
        c2 == s2 \div Base
    IN  <<x[1] % Base, s1 % Base, s2 % Base, x[4] + c2>>

Num(n) == Norm(<<n, 0, 0, 0>>)

Add(x, y) == Norm(<<x[1] + y[1], x[2] + y[2], x[3] + y[3], x[4] + y[4]>>)

\* x * k for a small natural k, exact.
MulSmall(x, k) == Norm(<<x[1] * k, x[2] * k, x[3] * k, x[4] * k>>)

Less(x, y) ==
    \/ x[4] < y[4]
    \/ x[4] = y[4] /\ x[3] < y[3]
    \/ x[4] = y[4] /\ x[3] = y[3] /\ x[2] < y[2]
    \/ x[4] = y[4] /\ x[3] = y[3] /\ x[2] = y[2] /\ x[1] < y[1]

Leq(x, y) == x = y \/ Less(x, y)

Zero == Num(0)

One == Num(1)

\* Conversion to int64: the low 64 bits, read as two's complement.
Wrap64(x) == <<x[1], x[2], x[3], ((x[4] + Half) % Base) - Half>>

\* Conversion to uint32: the low 32 bits.
Uint32(x) == <<x[1], x[2], 0, 0>>

\* int64 multiplication of a Duration by a small count, as Go computes it.
Mul64(x, k) == Wrap64(MulSmall(x, k))

\* time.Second = 1e9 ns; d * time.Second in int64.
TimesSecond(x) == Wrap64(MulSmall(MulSmall(MulSmall(x, 1000), 1000), 1000))

Seconds(n) == TimesSecond(Num(n))

Minutes(n) == Seconds(60 * n)


(***************************************************************************)
(* Bounds of the model.                                                    *)
(***************************************************************************)
\* Number of managed trackers of the session (valid announce URLs).
NumTrackers == 2

\* Number of Start() calls made on the session.
MaxStarts == 2

\* Number of times the clock is advanced.
MaxTicks == 1

\* Number of announceToTracker goroutines spawned in a run: no broadcast or
\* dispatch that would exceed it is made.
MaxAnnounces == 6

Trackers == 1..NumTrackers

LoopIds == 1..MaxStarts

(***************************************************************************)
(* Program constants.                                                      *)
(***************************************************************************)
\* const defaultAnnounceInterval = 30 * time.Minute
defaultAnnounceInterval == Minutes(30)

statusStarted == "started"

statusCompleted == "completed"

statusStopped == "stopped"

EventStarted == "started"

EventCompleted == "completed"

EventStopped == "stopped"

\* The 'interval' values (bencoded int64) a tracker response may carry.
RawIntervals == {Num(-1), Num(0), Num(900)}

VARIABLES
    now,        \* the clock: nanoseconds since the session was created
    ctxDone,    \* s.ctx has been cancelled
    status,     \* s.status
    trackers,   \* s.trackers: tracker -> managedTracker
    loops,      \* the announceLoop goroutines: loop id -> [pc, deadline]
    calls,      \* the announceToTracker goroutines
    received,   \* tracker -> event -> announce requests sent to the tracker
    lastReturn, \* the last return of Announce: tracker, "err" or "ok", interval
    spawned,    \* announceToTracker goroutines spawned so far
    ticks,      \* clock advances so far
    input,      \* the argument of the function under examination
    output,     \* the results of the function under examination
    piece,      \* the Piece under examination
    goroutines, \* ConnectToPeers: the goroutine of every remote peer
    peerChan,   \* ConnectToPeers: the Peers in the channel peerChan
    panicked,   \* a goroutine of the process has panicked
    rwmutex     \* the sync.RWMutex embedded in the Piece

\* The state of the session.
sessionVars == <<now, ctxDone, status, trackers, loops, calls, received,
                 lastReturn, spawned, ticks>>

\* The objects examined on their own.
connectVars == <<goroutines, peerChan, panicked>>

objectVars == <<piece, connectVars, rwmutex>>

\* The argument and the results of a function examined on its own, and the
\* objects examined on their own.
pureVars == <<input, output, objectVars>>

vars == <<now, ctxDone, status, trackers, loops, calls, received,
          lastReturn, spawned, ticks, input, output, piece,
          goroutines, peerChan, panicked, rwmutex>>

\* No object is under examination.
NoObjects ==
    /\ piece = <<>>
    /\ goroutines = <<>>
    /\ peerChan = <<>>
    /\ panicked = FALSE
    /\ rwmutex = <<>>

Events == {EventStarted, EventCompleted, EventStopped, ""}

\* newSession: one managedTracker per announce URL, interval the default,
\* nextAnnounceTime the creation time, failures 0, isAnnouncing false.
newManagedTracker ==
    [interval |-> defaultAnnounceInterval, nextAnnounceTime |-> Zero,
     failures |-> 0, isAnnouncing |-> FALSE]

SessionInit ==
    /\ now = Zero
    /\ ctxDone = FALSE
    /\ status = statusStarted
    /\ trackers = [t \in Trackers |-> newManagedTracker]
    /\ loops = [l \in LoopIds |-> [pc |-> "none", deadline |-> Zero]]
    /\ calls = {}
    /\ received = [t \in Trackers |-> [e \in Events |-> 0]]
    /\ lastReturn = [t |-> 0, kind |-> "none", raw |-> Zero]
    /\ spawned = 0
    /\ ticks = 0

Init ==
    /\ SessionInit
    /\ NoObjects
    /\ input = <<>>
    /\ output = <<>>

(***************************************************************************)
(* Pure functions of the session and of the tracker client.                *)
(***************************************************************************)
toTrackerStatus(event) ==
    IF event = statusStopped THEN EventStopped
    ELSE IF event = statusCompleted THEN EventCompleted
    ELSE EventStarted

\* parseTrackerResponse: Interval: uint32(interval).
parseTrackerResponse(raw) == [Interval |-> Uint32(raw)]

\* The backoff with the failure count itself as the multiplier.
backoffIntervalNoPlusOne(m) == Mul64(m.interval, m.failures)

\* backoffInterval := mt.interval * time.Duration(mt.failures+1), on the
\* tracker whose failures have already been incremented.
backoffInterval(m) == Mul64(m.interval, m.failures + 1)

\* announceToTracker, err != nil.
onFailure(m, t) ==
    LET m1 == [m EXCEPT !.failures = m.failures + 1]
    IN  [m1 EXCEPT !.nextAnnounceTime = Add(t, backoffInterval(m1))]

\* The response interval stored as it comes, without the default.
successIntervalNoDefault(res) == TimesSecond(res.Interval)

\* mt.interval = time.Duration(res.Interval) * time.Second, replaced by the
\* default when <= 0.
successInterval(res) ==
    LET iv == TimesSecond(res.Interval)
    IN  IF Leq(iv, Zero) THEN defaultAnnounceInterval ELSE iv

\* announceToTracker, err == nil.
onSuccess(m, res, t) ==
    LET iv == successInterval(res)
    IN  [m EXCEPT !.failures = 0, !.interval = iv,
                  !.nextAnnounceTime = Add(t, iv)]

\* An announceToTracker goroutine for tracker t, from its call of
\* mt.client.Announce(s.ctx, req) on.  loop is the announceLoop whose
\* broadcast waits for it, 0 for a periodic announce, and n tells the
\* goroutines of one tracker apart.  The HTTP client sends nothing
\* on a context that is already cancelled.
newCall(t, n, event, loop) ==
    [t |-> t, n |-> n, event |-> toTrackerStatus(event), loop |-> loop,
     sent |-> ~ctxDone]

\* The requests that reach the trackers when the goroutines S are spawned.
deliver(S) ==
    [t \in Trackers |-> [e \in Events |->
        received[t][e] + Cardinality({c \in S : c.t = t /\ c.event = e /\ c.sent})]]

(***************************************************************************)
(* Session operations.                                                     *)
(***************************************************************************)
\* broadcastAnnounce(event) up to wg.Wait(): one announceToTracker goroutine
\* per tracker.
broadcastAnnounce(l, event) ==
    LET S == {newCall(t, spawned, event, l) : t \in Trackers}
    IN  /\ spawned + Cardinality(S) <= MaxAnnounces
        /\ calls' = calls \cup S
        /\ received' = deliver(S)
        /\ spawned' = spawned + Cardinality(S)

\* func (s *session) Start() { go s.announceLoop() }, and the new loop's
\* broadcastAnnounce(statusStarted) up to its wg.Wait().
Start ==
    /\ \E l \in LoopIds :
        /\ loops[l].pc = "none"
        /\ \A k \in LoopIds : k < l => loops[k].pc # "none"
        /\ loops' = [loops EXCEPT ![l].pc = "waitStart"]
        /\ broadcastAnnounce(l, statusStarted)
    /\ UNCHANGED pureVars
    /\ UNCHANGED <<now, ctxDone, status, trackers, lastReturn, ticks>>

\* func (s *session) Stop() { s.cancelFunc() }
Stop ==
    /\ ~ctxDone
    /\ ctxDone' = TRUE
    /\ UNCHANGED pureVars
    /\ UNCHANGED <<now, status, trackers, loops, calls, received, lastReturn,
                   spawned, ticks>>

\* wg.Wait() returns when every goroutine of the broadcast has finished:
\* the loop is entered after the started broadcast, the goroutine ends
\* after the stopped one.
LoopWaitDone(l) ==
    /\ loops[l].pc \in {"waitStart", "waitStop"}
    /\ \A c \in calls : c.loop # l
    /\ loops' = [loops EXCEPT
                   ![l].pc = IF loops[l].pc = "waitStart" THEN "compute"
                             ELSE "done"]
    /\ UNCHANGED pureVars
    /\ UNCHANGED <<now, ctxDone, status, trackers, calls, received, lastReturn,
                   spawned, ticks>>

\* The earliest nextAnnounceTime among the trackers that are not announcing.
idleTrackers == {t \in Trackers : ~trackers[t].isAnnouncing}

earliest(S) ==
    CHOOSE t \in S :
        \A u \in S : Leq(trackers[t].nextAnnounceTime,
                         trackers[u].nextAnnounceTime)

\* announceLoop lines 109-124: the timer fires at the earliest
\* nextAnnounceTime of an idle tracker, or after the default interval when
\* every tracker is announcing.
LoopCompute(l) ==
    /\ loops[l].pc = "compute"
    /\ loops' = [loops EXCEPT
          ![l].pc = "select",
          ![l].deadline =
              IF idleTrackers = {} THEN Add(now, defaultAnnounceInterval)
              ELSE trackers[earliest(idleTrackers)].nextAnnounceTime]
    /\ UNCHANGED pureVars
    /\ UNCHANGED <<now, ctxDone, status, trackers, calls, received, lastReturn,
                   spawned, ticks>>

\* The idle trackers, whatever their nextAnnounceTime.
dueTrackersAnyTime == idleTrackers

\* The trackers the timer branch dispatches: idle and now.After(next).
dueTrackers ==
    {t \in Trackers : /\ ~trackers[t].isAnnouncing
                      /\ Less(trackers[t].nextAnnounceTime, now)}

\* select, case <-timer.C: dispatch every due tracker.
LoopTimer(l) ==
    /\ loops[l].pc = "select"
    /\ Leq(loops[l].deadline, now)
    /\ spawned + Cardinality(dueTrackers) <= MaxAnnounces
    /\ trackers' = [t \in Trackers |->
                      IF t \in dueTrackers
                      THEN [trackers[t] EXCEPT !.isAnnouncing = TRUE]
                      ELSE trackers[t]]
    /\ LET S == {newCall(t, spawned, status, 0) : t \in dueTrackers}
       IN  /\ calls' = calls \cup S
           /\ received' = deliver(S)
    /\ spawned' = spawned + Cardinality(dueTrackers)
    /\ loops' = [loops EXCEPT ![l].pc = "compute"]
    /\ UNCHANGED pureVars
    /\ UNCHANGED <<now, ctxDone, status, lastReturn, ticks>>

\* select, case <-s.ctx.Done(): return, which runs the deferred
\* broadcastAnnounce(statusStopped) up to its wg.Wait().
LoopCancelled(l) ==
    /\ loops[l].pc = "select"
    /\ ctxDone
    /\ loops' = [loops EXCEPT ![l].pc = "waitStop"]
    /\ broadcastAnnounce(l, statusStopped)
    /\ UNCHANGED pureVars
    /\ UNCHANGED <<now, ctxDone, status, trackers, lastReturn, ticks>>

(***************************************************************************)
(* announceToTracker, from the return of mt.client.Announce to the end of  *)
(* the goroutine: the update of the tracker under s.mu (lines 165-181),    *)
(* the deferred isAnnouncing = false (lines 145-149) and, for a broadcast, *)
(* wg.Done().                                                              *)
(***************************************************************************)
finish(c, m, kind, raw) ==
    /\ trackers' = [trackers EXCEPT ![c.t] = [m EXCEPT !.isAnnouncing = FALSE]]
    /\ calls' = calls \ {c}
    /\ lastReturn' = [t |-> c.t, kind |-> kind, raw |-> raw]
    /\ UNCHANGED pureVars
    /\ UNCHANGED <<now, ctxDone, status, loops, received, spawned, ticks>>

\* Announce returns an error.
AnnounceFail(c) ==
    finish(c, onFailure(trackers[c.t], now), "err", Zero)

\* Announce returns a response, which needs the request to have been sent;
\* raw is the response's bencoded interval.
AnnounceSucceed(c, raw) ==
    /\ c.sent
    /\ finish(c, onSuccess(trackers[c.t], parseTrackerResponse(raw), now),
              "ok", raw)

(***************************************************************************)
(* The clock advances to just after a tracker's nextAnnounceTime or just   *)
(* after a waiting loop's timer deadline.                                  *)
(***************************************************************************)
clockTargets ==
    {Add(trackers[t].nextAnnounceTime, One) : t \in Trackers}
    \cup {Add(loops[l].deadline, One) :
             l \in {k \in LoopIds : loops[k].pc = "select"}}

advance(limit) ==
    /\ ticks < limit
    /\ \E x \in clockTargets :
        /\ Less(now, x)
        /\ now' = x
    /\ ticks' = ticks + 1
    /\ UNCHANGED pureVars
    /\ UNCHANGED <<ctxDone, status, trackers, loops, calls, received, lastReturn,
                   spawned>>

Tick == advance(MaxTicks)

Next ==
    \/ Start
    \/ Stop
    \/ \E l \in LoopIds : LoopWaitDone(l)
    \/ \E l \in LoopIds : LoopCompute(l)
    \/ \E l \in LoopIds : LoopTimer(l)
    \/ \E l \in LoopIds : LoopCancelled(l)
    \/ \E c \in calls : AnnounceFail(c)
    \/ \E c \in calls : \E raw \in RawIntervals : AnnounceSucceed(c, raw)
    \/ Tick

Spec == Init /\ [][Next]_vars

(***************************************************************************)
(* Properties of the session orchestrator.                                 *)
(***************************************************************************)
\* Start() has been called at most once.
OneStart == \A l \in LoopIds : l > 1 => loops[l].pc = "none"

\* The Announce calls to tracker t that have not returned.
inFlight(t) == {c \in calls : c.t = t}

\* A step in which an Announce call returns and its goroutine ends.
ReturnStep == calls' # calls /\ calls' \subseteq calls

\* k * x in int64, by repeated addition.
RECURSIVE Times(_, _)
Times(x, k) == IF k = 0 THEN Zero ELSE Wrap64(Add(Times(x, k - 1), x))

\* C1: for every managed tracker at most one announce call is in flight at
\* any time, in every interleaving of the periodic dispatches, the start
\* broadcast, the stop broadcast and Stop() (Start() called once).
C1_AtMostOneInFlight ==
    OneStart => \A t \in Trackers : Cardinality(inFlight(t)) <= 1

\* C2: when a started session has been stopped and its loop has ended,
\* every tracker has received exactly one announce carrying 'stopped': the
\* stop broadcast is made on a context that still lets it be delivered.
C2_StoppedDelivered ==
    (OneStart /\ loops[1].pc = "done")
        => \A t \in Trackers : received[t][EventStopped] = 1

\* C3: a started session sends every tracker exactly one announce carrying
\* 'started', and no periodic announce is in flight while the started
\* broadcast is (Start() called once).
C3_ExactlyOneStarted ==
    OneStart =>
        /\ \A t \in Trackers : received[t][EventStarted] <= 1
        /\ (loops[1].pc \in {"compute", "select"} /\ ~ctxDone)
               => \A t \in Trackers : received[t][EventStarted] >= 1
        /\ loops[1].pc = "waitStart" => \A c \in calls : c.loop # 0

\* C4: at most one announce scheduling loop runs for a session at any time,
\* for every sequence of Start and Stop calls.
C4_AtMostOneLoop ==
    Cardinality({l \in LoopIds : loops[l].pc \notin {"none", "done"}}) <= 1

\* C5: a failed announce increments the tracker's failure count by one,
\* leaves its interval alone and sets its next announce time to the time of
\* the failure + interval * (failures + 1) with the incremented count (the
\* product being the Duration's, in int64); with interval 30 minutes the
\* first three failures give 60, 90 and 120 minutes.
C5_FailureBackoff ==
    [][(ReturnStep /\ lastReturn'.kind = "err") =>
        LET t == lastReturn'.t
            m == trackers[t]
            m1 == trackers'[t]
        IN  /\ m1.failures = m.failures + 1
            /\ m1.interval = m.interval
            /\ m1.nextAnnounceTime
                   = Add(now, Times(m.interval, m1.failures + 1))
            /\ (m.interval = Minutes(30) /\ m1.failures \in 1..3)
                   => m1.nextAnnounceTime
                          = Add(now, Minutes(30 * (m1.failures + 1)))]_vars

\* C5 witness: the third consecutive failure of a tracker with interval 30
\* minutes has just set its next announce 120 minutes ahead.
C5_Witness ==
    \E t \in Trackers :
        /\ lastReturn.t = t /\ lastReturn.kind = "err"
        /\ trackers[t].failures = 3
        /\ trackers[t].interval = Minutes(30)
        /\ trackers[t].nextAnnounceTime = Add(now, Minutes(120))

\* C6 as stated: a successful announce resets the failure count to zero,
\* sets the interval to the interval of the response and the next announce
\* time to the time of completion + that interval.
C6_IntervalOfResponse ==
    [][(ReturnStep /\ lastReturn'.kind = "ok") =>
        LET m1 == trackers'[lastReturn'.t]
            iv == TimesSecond(Uint32(lastReturn'.raw))
        IN  /\ m1.failures = 0
            /\ m1.interval = iv
            /\ m1.nextAnnounceTime = Add(now, iv)]_vars

\* C6 amended: a successful announce resets the failure count to zero, sets
\* the interval to the interval of the response, or to the default 30
\* minutes when the response's interval is not positive, and sets the next
\* announce time to the time of completion + the interval so set.
C6_SuccessUpdate ==
    [][(ReturnStep /\ lastReturn'.kind = "ok") =>
        LET m1 == trackers'[lastReturn'.t]
            iv == TimesSecond(Uint32(lastReturn'.raw))
        IN  /\ m1.failures = 0
            /\ m1.interval = IF Less(Zero, iv) THEN iv ELSE Minutes(30)
            /\ m1.nextAnnounceTime = Add(now, m1.interval)]_vars

\* C6 witness: a response with interval 900 has just been applied.
C6_Witness ==
    \E t \in Trackers :
        /\ lastReturn = [t |-> t, kind |-> "ok", raw |-> Num(900)]
        /\ trackers[t].failures = 0
        /\ trackers[t].interval = Seconds(900)
        /\ trackers[t].nextAnnounceTime = Add(now, Seconds(900))

\* C7: after a successful announce whose response carries an interval that
\* is zero or negative the tracker's interval is the default 30 minutes,
\* and the stored interval is strictly positive in every state.
C7_NonPositiveIsDefault ==
    /\ (lastReturn.kind = "ok" /\ Leq(lastReturn.raw, Zero))
           => trackers[lastReturn.t].interval = defaultAnnounceInterval
    /\ \A t \in Trackers : Less(Zero, trackers[t].interval)

\* C8: for one tracker the delay between a failure and the next permitted
\* announce, in int64 nanoseconds, is non-decreasing in the number N of
\* consecutive failures: the delay set by failure N is at least the delay
\* set by failure N - 1, for every interval the tracker can hold.
C8_BackoffMonotone ==
    \A t \in Trackers :
        trackers[t].failures >= 2 =>
            Leq(backoffInterval([trackers[t] EXCEPT !.failures = @ - 1]),
                backoffInterval(trackers[t]))

\* C9: a tracker whose announce call has not returned does not keep the
\* other trackers from being announced to: whenever the session runs
\* uncancelled and a tracker is idle with its next announce time elapsed,
\* the scheduling loop is not waiting for another tracker's call.
C9_NoStall ==
    (OneStart /\ ~ctxDone /\ loops[1].pc # "none") =>
        \A t \in dueTrackers :
            inFlight(t) = {} => loops[1].pc \in {"compute", "select"}

\* C10: after Stop() the scheduling loop dispatches no further periodic
\* announce: every periodic announce was dispatched on a context that was
\* not yet cancelled.
C10_NoDispatchAfterStop ==
    \A c \in calls : c.loop = 0 => c.sent

\* C11: a periodic (steady-state) announce dispatched by the scheduling
\* loop carries an empty event; only the lifecycle broadcasts carry
\* started, stopped or completed.
C11_PeriodicNoEvent ==
    \A c \in calls : c.loop = 0 => c.event = ""

(***************************************************************************)
(* Part 2: session creation (newSession) and the construction of tracker   *)
(* clients (package tracker, client.go).  A URL is the sequence of its     *)
(* characters.                                                             *)
(***************************************************************************)
\* Number of announce URLs of the torrent handed to newSession.
MaxURLs == 3

LowerCase == <<"a", "b", "c", "d", "e", "f", "g", "h", "i", "j", "k", "l", "m",
               "n", "o", "p", "q", "r", "s", "t", "u", "v", "w", "x", "y", "z">>

UpperCase == <<"A", "B", "C", "D", "E", "F", "G", "H", "I", "J", "K", "L", "M",
               "N", "O", "P", "Q", "R", "S", "T", "U", "V", "W", "X", "Y", "Z">>

Range(s) == {s[i] : i \in DOMAIN s}

IsLetter(c) == c \in Range(LowerCase) \cup Range(UpperCase)

\* strings.ToLower, on one character and on a string.
ToLowerChar(c) ==
    IF c \in Range(UpperCase)
    THEN LowerCase[CHOOSE i \in DOMAIN UpperCase : UpperCase[i] = c]
    ELSE c

ToLower(s) == [i \in DOMAIN s |-> ToLowerChar(s[i])]

\* net/url getScheme: the scheme is the run of letters, digits, '+', '-'
\* and '.' in front of the first ':', beginning with a letter; a URL that
\* begins with ':' is an error ("missing protocol scheme"), and a URL
\* without such a run has no scheme.
RECURSIVE getScheme(_, _)
getScheme(rawURL, i) ==
    IF i > Len(rawURL) THEN [err |-> FALSE, scheme |-> <<>>]
    ELSE IF IsLetter(rawURL[i]) THEN getScheme(rawURL, i + 1)
    ELSE IF rawURL[i] \in {"0", "1", "+", "-", "."}
        THEN IF i = 1 THEN [err |-> FALSE, scheme |-> <<>>]
             ELSE getScheme(rawURL, i + 1)
    ELSE IF rawURL[i] = ":"
        THEN IF i = 1 THEN [err |-> TRUE, scheme |-> <<>>]
             ELSE [err |-> FALSE, scheme |-> SubSeq(rawURL, 1, i - 1)]
    ELSE [err |-> FALSE, scheme |-> <<>>]

\* url.Parse, as far as the scheme: u.Scheme is lower-cased.
urlParse(rawURL) ==
    LET r == getScheme(rawURL, 1)
    IN  [err |-> r.err, Scheme |-> ToLower(r.scheme)]

\* A constructor of tracker clients that accepts every scheme.
NewTrackerClientAnyScheme(announce) ==
    LET u == urlParse(announce)
    IN  IF u.err THEN [err |-> TRUE, client |-> <<>>]
        ELSE [err |-> FALSE, client |-> announce]

\* NewTrackerClient: the HTTP client of the URL for the schemes http and
\* https, an error for an unparsable URL and for every other scheme.
NewTrackerClient(announce) ==
    LET u == urlParse(announce)
    IN  IF u.err THEN [err |-> TRUE, client |-> <<>>]
        ELSE IF u.Scheme \in {<<"h", "t", "t", "p">>, <<"h", "t", "t", "p", "s">>}
            THEN [err |-> FALSE, client |-> announce]
        ELSE [err |-> TRUE, client |-> <<>>]

\* The loop of newSession over torrent.AnnounceURLs: a managedTracker is
\* appended for every URL whose client is constructed, the others are
\* skipped.
RECURSIVE managedTrackersOf(_)
managedTrackersOf(urls) ==
    IF urls = <<>> THEN <<>>
    ELSE LET c == NewTrackerClient(Head(urls))
         IN  IF c.err THEN managedTrackersOf(Tail(urls))
             ELSE <<[client |-> c.client, mt |-> newManagedTracker]>>
                      \o managedTrackersOf(Tail(urls))

\* newSession: the session or the error it returns, and whether the
\* context it created has been cancelled.
newSession(urls) ==
    LET managedTrackers == managedTrackersOf(urls)
    IN  IF Len(managedTrackers) = 0
        THEN [err |-> TRUE, cancelled |-> TRUE, trackers |-> <<>>,
              status |-> ""]
        ELSE [err |-> FALSE, cancelled |-> FALSE,
              trackers |-> managedTrackers, status |-> statusStarted]

\* The announce URLs a torrent may list.
AnnounceURLChoices ==
    { <<"h", "t", "t", "p", ":", "/", "/", "a">>,
      <<"h", "t", "t", "p", "s", ":", "/", "/", "b">>,
      <<"H", "T", "T", "P", ":", "/", "/", "c">>,
      <<"u", "d", "p", ":", "/", "/", "a">>,
      <<":", "/", "/", "a">>,
      <<"a", ".", "b">>,
      <<>> }

RECURSIVE SeqsUpTo(_, _)
SeqsUpTo(S, n) ==
    IF n = 0 THEN {<<>>}
    ELSE LET P == SeqsUpTo(S, n - 1)
         IN  P \cup {Append(s, x) : s \in P, x \in S}

NewSessionInit ==
    /\ SessionInit
    /\ NoObjects
    /\ input \in SeqsUpTo(AnnounceURLChoices, MaxURLs)
    /\ output = <<>>

\* relay.Client.AddTorrentFile: newSession on the parsed torrent.
CallNewSession ==
    /\ output = <<>>
    /\ output' = <<newSession(input)>>
    /\ UNCHANGED <<input, sessionVars, objectVars>>

NewSessionNext == CallNewSession

SpecNewSession == NewSessionInit /\ [][NewSessionNext]_vars

\* The URL begins with "http:" or "https:", in any letter case.
isHTTPURL(u) ==
    \/ Len(u) >= 5 /\ ToLower(SubSeq(u, 1, 5)) = <<"h", "t", "t", "p", ":">>
    \/ Len(u) >= 6
         /\ ToLower(SubSeq(u, 1, 6)) = <<"h", "t", "t", "p", "s", ":">>

\* The subsequence of the HTTP and HTTPS URLs.
httpURLs(urls) == SelectSeq(urls, isHTTPURL)

\* C12: newSession creates exactly one managed tracker for each announce
\* URL of scheme http or https, in order, each idle with zero failures and
\* the default interval, and skips the URLs of any other scheme; when no
\* URL yields a tracker client it returns an error and no session and has
\* cancelled its context.
C12_NewSession ==
    output # <<>> =>
        LET r == output[1]
            want == httpURLs(input)
        IN  /\ r.err = (want = <<>>)
            /\ r.err => (r.trackers = <<>> /\ r.cancelled)
            /\ ~r.err =>
                /\ ~r.cancelled
                /\ Len(r.trackers) = Len(want)
                /\ \A i \in DOMAIN want :
                    /\ r.trackers[i].client = want[i]
                    /\ r.trackers[i].mt.isAnnouncing = FALSE
                    /\ r.trackers[i].mt.failures = 0
                    /\ r.trackers[i].mt.interval = Minutes(30)

\* C12 witness: of three URLs the one with another scheme has been
\* skipped and the two HTTP(S) ones have a managed tracker each.
C12_Witness ==
    /\ output # <<>>
    /\ Len(input) = 3
    /\ Len(httpURLs(input)) = 2
    /\ ~output[1].err
    /\ Len(output[1].trackers) = 2

\* C12 witness of the failure: no URL yields a client.
C12_WitnessNone ==
    /\ output # <<>>
    /\ Len(input) = 2
    /\ output[1].err

(***************************************************************************)
(* Part 3: the bencode codec (package bencode).                            *)
(*                                                                         *)
(* A byte string is a sequence of bytes 0..255.  A Go value handed to      *)
(* Marshal or returned by Unmarshal is a tagged pair:                      *)
(*   <<"int", n>>      an int64                                            *)
(*   <<"str", s>>      a string, s its bytes                               *)
(*   <<"list", l>>     a []any, l the sequence of its elements             *)
(*   <<"dict", p>>     a map[string]any, p the sequence of its <<key,      *)
(*                     value>> pairs, keys distinct, in the order in which *)
(*                     `range` visits them (any order, in Go)              *)
(*   <<"other", 0>>    a value of any other type                           *)
(***************************************************************************)
bInteger == 105

bDict == 100

bList == 108

bTerminator == 101

chColon == 58

chMinus == 45

chPlus == 43

chZero == 48

IsDigit(b) == b >= chZero /\ b <= chZero + 9

\* strconv.FormatInt(val, 10), strconv.Itoa.
RECURSIVE formatDigits(_)
formatDigits(n) ==
    IF n < 10 THEN <<chZero + n>>
    ELSE Append(formatDigits(n \div 10), chZero + (n % 10))

FormatInt(n) ==
    IF n < 0 THEN <<chMinus>> \o formatDigits(0 - n) ELSE formatDigits(n)

\* strconv.ParseInt(s, 10, 64): an optional sign and one or more digits.
RECURSIVE parseDigits(_, _)
parseDigits(s, acc) ==
    IF s = <<>> THEN [err |-> FALSE, val |-> acc]
    ELSE IF ~IsDigit(Head(s)) THEN [err |-> TRUE, val |-> 0]
    ELSE parseDigits(Tail(s), 10 * acc + (Head(s) - chZero))

ParseInt(s) ==
    IF s = <<>> THEN [err |-> TRUE, val |-> 0]
    ELSE LET signed == Head(s) \in {chMinus, chPlus}
             digits == IF signed THEN Tail(s) ELSE s
             r == parseDigits(digits, 0)
         IN  IF digits = <<>> \/ r.err THEN [err |-> TRUE, val |-> 0]
             ELSE IF Head(s) = chMinus THEN [err |-> FALSE, val |-> 0 - r.val]
             ELSE r

\* The failure of a decoding step.
decodeError == [err |-> TRUE, val |-> <<>>, rest |-> <<>>]

\* readInteger(delim): the bytes up to the first delim (bufio ReadBytes,
\* an error when the input ends before it) parsed by strconv.ParseInt.
readInteger(s, delim) ==
    IF \A i \in DOMAIN s : s[i] # delim THEN decodeError
    ELSE LET i == CHOOSE j \in DOMAIN s :
                      s[j] = delim /\ \A k \in 1..(j - 1) : s[k] # delim
             n == ParseInt(SubSeq(s, 1, i - 1))
         IN  IF n.err THEN decodeError
             ELSE [err |-> FALSE, val |-> n.val,
                   rest |-> SubSeq(s, i + 1, Len(s))]

unmarshalInteger(s) ==
    LET r == readInteger(s, bTerminator)
    IN  IF r.err THEN decodeError ELSE [r EXCEPT !.val = <<"int", r.val>>]

\* unmarshalString: <length>:<bytes>.
unmarshalString(s) ==
    LET size == readInteger(s, chColon)
    IN  IF size.err THEN decodeError
        ELSE IF size.val = 0
            THEN [err |-> FALSE, val |-> <<"str", <<>>>>, rest |-> size.rest]
        ELSE IF size.val < 0 THEN decodeError
        ELSE IF Len(size.rest) < size.val THEN decodeError
        ELSE [err |-> FALSE,
              val |-> <<"str", SubSeq(size.rest, 1, size.val)>>,
              rest |-> SubSeq(size.rest, size.val + 1, Len(size.rest))]

\* dict[key] = val on the pairs of a map.
mapPut(pairs, key, val) ==
    IF \E i \in DOMAIN pairs : pairs[i][1] = key
    THEN [i \in DOMAIN pairs |->
             IF pairs[i][1] = key THEN <<key, val>> ELSE pairs[i]]
    ELSE Append(pairs, <<key, val>>)

RECURSIVE Unmarshal(_)
RECURSIVE unmarshalList(_, _)
RECURSIVE unmarshalDict(_, _)
\* Unmarshal: one value from the front of s; rest is what is left unread.
Unmarshal(s) ==
    IF s = <<>> THEN decodeError
    ELSE IF Head(s) = bInteger THEN unmarshalInteger(Tail(s))
    ELSE IF Head(s) = bDict THEN unmarshalDict(Tail(s), <<>>)
    ELSE IF Head(s) = bList THEN unmarshalList(Tail(s), <<>>)
    ELSE unmarshalString(s)

unmarshalList(s, list) ==
    IF s = <<>> THEN decodeError
    ELSE IF Head(s) = bTerminator
        THEN [err |-> FALSE, val |-> <<"list", list>>, rest |-> Tail(s)]
    ELSE LET v == Unmarshal(s)
         IN  IF v.err THEN decodeError
             ELSE unmarshalList(v.rest, Append(list, v.val))

unmarshalDict(s, dict) ==
    IF s = <<>> THEN decodeError
    ELSE IF Head(s) = bTerminator
        THEN [err |-> FALSE, val |-> <<"dict", dict>>, rest |-> Tail(s)]
    ELSE LET key == unmarshalString(s)
         IN  IF key.err THEN decodeError
             ELSE LET val == Unmarshal(key.rest)
                  IN  IF val.err THEN decodeError
                      ELSE unmarshalDict(val.rest,
                                         mapPut(dict, key.val[2], val.val))

\* The result of a Marshal that wrote out and returned no error, and of one
\* that returned an error after writing out.
written(out) == [err |-> FALSE, out |-> out]

failed(out) == [err |-> TRUE, out |-> out]

\* marshalInteger: Write("i" + strconv.FormatInt(val, 10)).
marshalInteger(val) == written(<<bInteger>> \o FormatInt(val))

\* marshalString: Write(strconv.Itoa(len(s)) + ":" + s).
marshalString(s) == written(FormatInt(Len(s)) \o <<chColon>> \o s)

\* a < b for Go strings: byte-wise lexicographic order.
RECURSIVE StringLess(_, _)
StringLess(a, b) ==
    IF b = <<>> THEN FALSE
    ELSE IF a = <<>> THEN TRUE
    ELSE IF Head(a) # Head(b) THEN Head(a) < Head(b)
    ELSE StringLess(Tail(a), Tail(b))

\* The keys left as `range` produced them.
keysAsRanged(keys) == keys

\* sort.Strings(keys): the keys in ascending order.
RECURSIVE sortStrings(_)
sortStrings(keys) ==
    IF keys = <<>> THEN <<>>
    ELSE LET rest == sortStrings(Tail(keys))
             before == SelectSeq(rest, LAMBDA k : StringLess(k, Head(keys)))
             after == SelectSeq(rest, LAMBDA k : ~StringLess(k, Head(keys)))
         IN  before \o <<Head(keys)>> \o after

\* for k := range dict { keys = append(keys, k) }
rangeKeys(dict) == [i \in DOMAIN dict |-> dict[i][1]]

\* dict[k]
mapGet(dict, k) == dict[CHOOSE i \in DOMAIN dict : dict[i][1] = k][2]

RECURSIVE Marshal(_)
RECURSIVE marshalItems(_)
RECURSIVE marshalEntries(_, _)
\* The loop of marshalList: the items in order, up to the first error.
marshalItems(list) ==
    IF list = <<>> THEN written(<<>>)
    ELSE LET h == Marshal(Head(list))
         IN  IF h.err THEN h
             ELSE LET t == marshalItems(Tail(list))
                  IN  [err |-> t.err, out |-> h.out \o t.out]

\* marshalList: "l", the items, "e".
marshalList(list) ==
    LET r == marshalItems(list)
    IN  IF r.err THEN failed(<<bList>> \o r.out)
        ELSE written(<<bList>> \o r.out \o <<bTerminator>>)

\* The loop of marshalDict over the sorted keys: key, then value.
marshalEntries(dict, keys) ==
    IF keys = <<>> THEN written(<<>>)
    ELSE LET k == marshalString(Head(keys))
             v == Marshal(mapGet(dict, Head(keys)))
         IN  IF v.err THEN failed(k.out \o v.out)
             ELSE LET t == marshalEntries(dict, Tail(keys))
                  IN  [err |-> t.err, out |-> k.out \o v.out \o t.out]

\* marshalDict: "d", the entries in the order of the sorted keys, "e".
marshalDict(dict) ==
    LET r == marshalEntries(dict, sortStrings(rangeKeys(dict)))
    IN  IF r.err THEN failed(<<bDict>> \o r.out)
        ELSE written(<<bDict>> \o r.out \o <<bTerminator>>)

\* Marshal: the type switch.
Marshal(v) ==
    IF v[1] = "int" THEN marshalInteger(v[2])
    ELSE IF v[1] = "str" THEN marshalString(v[2])
    ELSE IF v[1] = "list" THEN marshalList(v[2])
    ELSE IF v[1] = "dict" THEN marshalDict(v[2])
    ELSE failed(<<>>)

(***************************************************************************)
(* The values handed to Marshal.                                           *)
(***************************************************************************)
\* Nesting depth of the values: 0 is an integer or a string.
MaxDepth == 2

\* Length of a list and number of keys of a mapping.
MaxItems == 2

IntChoices == {0 - 12, 0}

\* "" and "ab"
StrChoices == {<<>>, <<97, 98>>}

\* "ab" and "b"
KeyChoices == {<<97, 98>>, <<98>>}

BencodeAtoms ==
    {<<"int", n>> : n \in IntChoices}
        \cup {<<"str", s>> : s \in StrChoices}
        \cup {<<"other", 0>>}

\* The sequences of distinct keys: the orders in which the keys of a map
\* may be visited.
KeySeqs ==
    {ks \in SeqsUpTo(KeyChoices, MaxItems) :
        \A i, j \in DOMAIN ks : i # j => ks[i] # ks[j]}

\* The lists and the maps with elements in E.
Containers(E) ==
    {<<"list", l>> : l \in SeqsUpTo(E, MaxItems)}
        \cup UNION {{<<"dict", [i \in DOMAIN ks |-> <<ks[i], vs[i]>>]>> :
                        vs \in [DOMAIN ks -> E]} : ks \in KeySeqs}

RECURSIVE BencodeValues(_)
BencodeValues(d) ==
    IF d = 0 THEN BencodeAtoms
    ELSE LET E == BencodeValues(d - 1) IN E \cup Containers(E)

BencodeInit ==
    /\ SessionInit
    /\ NoObjects
    /\ input \in BencodeValues(MaxDepth)
    /\ output = <<>>

\* NewMarshaller(&buf).Marshal(v): the error and the bytes written.
CallMarshal ==
    /\ output = <<>>
    /\ output' = <<Marshal(input)>>
    /\ UNCHANGED <<input, sessionVars, objectVars>>

\* NewUnmarshaller(r).Unmarshal() on the bytes Marshal has written.
CallUnmarshal ==
    /\ Len(output) = 1
    /\ ~output[1].err
    /\ output' = Append(output, Unmarshal(output[1].out))
    /\ UNCHANGED <<input, sessionVars, objectVars>>

BencodeNext == CallMarshal \/ CallUnmarshal

SpecBencode == BencodeInit /\ [][BencodeNext]_vars

(***************************************************************************)
(* Properties of the bencode codec.                                        *)
(***************************************************************************)
\* v is built from integers, byte strings, sequences and mappings only.
RECURSIVE Supported(_)
Supported(v) ==
    IF v[1] \in {"int", "str"} THEN TRUE
    ELSE IF v[1] = "list" THEN \A i \in DOMAIN v[2] : Supported(v[2][i])
    ELSE IF v[1] = "dict" THEN \A i \in DOMAIN v[2] : Supported(v[2][i][2])
    ELSE FALSE

\* The value with every mapping as the function from its keys to its
\* values: two Go values are equal when these are.
RECURSIVE Canon(_)
Canon(v) ==
    IF v[1] = "list" THEN <<"list", [i \in DOMAIN v[2] |-> Canon(v[2][i])]>>
    ELSE IF v[1] = "dict"
        THEN <<"dict", [k \in {v[2][i][1] : i \in DOMAIN v[2]} |->
                           Canon(mapGet(v[2], k))]>>
    ELSE v

\* The keys S in ascending byte order.
RECURSIVE Ascending(_)
Ascending(S) ==
    IF S = {} THEN <<>>
    ELSE LET k == CHOOSE x \in S : \A y \in S \ {x} : StringLess(x, y)
         IN  <<k>> \o Ascending(S \ {k})

RECURSIVE Concat(_)
Concat(ss) == IF ss = <<>> THEN <<>> ELSE Head(ss) \o Concat(Tail(ss))

\* The bencoding of a supported value: i<decimal>e, <length>:<bytes>,
\* l<elements>e, d<pairs in ascending key order>e.
RECURSIVE Bencode(_)
Bencode(v) ==
    IF v[1] = "int" THEN <<bInteger>> \o FormatInt(v[2]) \o <<bTerminator>>
    ELSE IF v[1] = "str" THEN FormatInt(Len(v[2])) \o <<chColon>> \o v[2]
    ELSE IF v[1] = "list"
        THEN <<bList>> \o Concat([i \in DOMAIN v[2] |-> Bencode(v[2][i])])
                 \o <<bTerminator>>
    ELSE LET ks == Ascending({v[2][i][1] : i \in DOMAIN v[2]})
         IN  <<bDict>>
                 \o Concat([i \in DOMAIN ks |->
                       Bencode(<<"str", ks[i]>>) \o Bencode(mapGet(v[2], ks[i]))])
                 \o <<bTerminator>>

\* C13: for every value built from integers, byte strings, sequences and
\* string-keyed mappings, Unmarshal of the bytes written by Marshal
\* succeeds and yields a value equal to it.
C13_RoundTrip ==
    (Len(output) = 2 /\ Supported(input)) =>
        /\ ~output[2].err
        /\ Canon(output[2].val) = Canon(input)

\* C14: Marshal writes an integer n as 'i' decimal(n) 'e', a string as
\* decimal(len) ':' bytes, a list as 'l' elements 'e' and a mapping as 'd'
\* key/value encodings 'e', and returns an error for a value of any other
\* type.
C14_MarshalFormat ==
    Len(output) >= 1 =>
        IF Supported(input)
        THEN ~output[1].err /\ output[1].out = Bencode(input)
        ELSE output[1].err

\* v and the values nested in it.
RECURSIVE SubValues(_)
SubValues(v) ==
    IF v[1] = "list"
    THEN {v} \cup UNION {SubValues(v[2][i]) : i \in DOMAIN v[2]}
    ELSE IF v[1] = "dict"
    THEN {v} \cup UNION {SubValues(v[2][i][2]) : i \in DOMAIN v[2]}
    ELSE {v}

\* The values that differ from v only in the order in which the pairs of
\* its mappings, at any depth, were inserted and are visited.
RECURSIVE Variants(_)
Variants(v) ==
    IF v[1] = "list"
    THEN {<<"list", l>> :
            l \in {f \in [DOMAIN v[2] ->
                            UNION {Variants(v[2][i]) : i \in DOMAIN v[2]}] :
                      \A i \in DOMAIN v[2] : f[i] \in Variants(v[2][i])}}
    ELSE IF v[1] = "dict"
    THEN UNION {{<<"dict", [i \in DOMAIN v[2] |-> <<v[2][p[i]][1], f[p[i]]>>]>> :
                    p \in Permutations(DOMAIN v[2])} :
                 f \in {g \in [DOMAIN v[2] ->
                            UNION {Variants(v[2][i][2]) : i \in DOMAIN v[2]}] :
                          \A i \in DOMAIN v[2] : g[i] \in Variants(v[2][i][2])}}
    ELSE {v}

\* The bytes of a mapping whose keys are emitted in ascending order: 'd',
\* then for each key in that order the key and what Marshal writes for its
\* value, then 'e'.
keysAscending(d) ==
    LET ks == Ascending({d[2][i][1] : i \in DOMAIN d[2]})
    IN  <<bDict>>
            \o Concat([i \in DOMAIN ks |->
                  FormatInt(Len(ks[i])) \o <<chColon>> \o ks[i]
                      \o Marshal(mapGet(d[2], ks[i])).out])
            \o <<bTerminator>>

\* C15: Marshal emits the keys of a mapping in strictly ascending
\* byte-wise order, at every nesting depth, whatever the order in which
\* they were inserted: mappings with the same key/value pairs marshal to
\* the same bytes.
C15_SortedKeys ==
    (Len(output) >= 1 /\ ~output[1].err) =>
        /\ \A d \in SubValues(input) :
               d[1] = "dict" => Marshal(d).out = keysAscending(d)
        /\ \A w \in Variants(input) : Marshal(w) = output[1]

\* C15 witness: a mapping whose keys were inserted as "b", "ab", with a
\* mapping inserted in the same order nested in it, has been marshalled
\* with "ab" before "b" at both depths.
C15_Witness ==
    /\ Len(output) >= 1
    /\ input = <<"dict",
                 << <<(<<98>>),
                      <<"dict", << <<(<<98>>), <<"str", <<>>>> >>,
                                   <<(<<97, 98>>), <<"str", <<97, 98>>>> >> >> >> >>,
                    <<(<<97, 98>>), <<"str", <<>>>> >> >> >>
    /\ output[1] = written(<<100, 50, 58, 97, 98, 48, 58, 49, 58, 98,
                             100, 50, 58, 97, 98, 50, 58, 97, 98,
                             49, 58, 98, 48, 58, 101, 101>>)

(***************************************************************************)
(* Part 4: the torrent metainfo parser (package torrent).                  *)
(***************************************************************************)
\* "info"
keyInfoDict == <<105, 110, 102, 111>>

\* "pieces"
keyPieces == <<112, 105, 101, 99, 101, 115>>

\* "piece length"
keyPieceLength == <<112, 105, 101, 99, 101, 32, 108, 101, 110, 103, 116, 104>>

\* "length"
keyLength == <<108, 101, 110, 103, 116, 104>>

\* "files"
keyFiles == <<102, 105, 108, 101, 115>>

\* "path"
keyPath == <<112, 97, 116, 104>>

\* "md5sum"
keyMD5Sum == <<109, 100, 53, 115, 117, 109>>

\* "name"
keyName == <<110, 97, 109, 101>>

\* "private"
keyPrivate == <<112, 114, 105, 118, 97, 116, 101>>

\* "announce"
keyAnnounce == <<97, 110, 110, 111, 117, 110, 99, 101>>

\* "announce-list"
keyAnnounceList == <<97, 110, 110, 111, 117, 110, 99, 101, 45, 108, 105, 115, 116>>

\* "creation date"
keyCreationDate == <<99, 114, 101, 97, 116, 105, 111, 110, 32, 100, 97, 116, 101>>

\* "comment"
keyComment == <<99, 111, 109, 109, 101, 110, 116>>

\* "created by"
keyCreatedBy == <<99, 114, 101, 97, 116, 101, 100, 32, 98, 121>>

\* sha1.Size
sha1Size == 20

\* sha1.Sum: the digest stands for the bytes it was computed from.
sha1Sum(bytes) == <<"sha1", bytes>>

\* The value that stands for a key that is not in a map.
absent == <<"absent", 0>>

\* m[key] of a map[string]any: the value, or absent.
lookup(m, key) ==
    IF \E i \in DOMAIN m : m[i][1] = key THEN mapGet(m, key) ELSE absent

\* m[key].(T): the value when it is of type tag, or absent.
lookupType(m, key, tag) ==
    LET v == lookup(m, key) IN IF v[1] = tag THEN v ELSE absent

\* parser.getString: the string at key, "" when missing or no string.
getString(data, key) ==
    LET v == lookupType(data, key, "str")
    IN  IF v = absent THEN <<>> ELSE v[2]

\* parser.getInt: the integer at key, 0 when missing or no integer.
getInt(data, key) ==
    LET v == lookupType(data, key, "int")
    IN  IF v = absent THEN 0 ELSE v[2]

\* calculateSHA1Hash: the SHA-1 of what Marshal writes for the dictionary.
calculateSHA1Hash(infoDict) ==
    LET m == Marshal(infoDict)
    IN  IF m.err THEN [err |-> TRUE, hash |-> <<>>]
        ELSE [err |-> FALSE, hash |-> sha1Sum(m.out)]

\* The length test of 'pieces' left out.
anyPiecesLength(piecesStr) == TRUE

\* len(piecesStr) % sha1.Size == 0
validPiecesLength(piecesStr) == Len(piecesStr) % sha1Size = 0

\* parseInfo, lines 461-464: piece i is the sha1.Size bytes from i*sha1.Size.
splitPieces(piecesStr) ==
    [i \in 1..(Len(piecesStr) \div sha1Size) |->
        SubSeq(piecesStr, (i - 1) * sha1Size + 1, i * sha1Size)]

\* parseFiles, the conversion of one file's path: an error when an
\* element is not a string.
pathOf(rawPath) ==
    IF \E i \in DOMAIN rawPath : rawPath[i][1] # "str"
    THEN [err |-> TRUE, path |-> <<>>]
    ELSE [err |-> FALSE, path |-> [i \in DOMAIN rawPath |-> rawPath[i][2]]]

\* parseFiles, the loop over the entries of 'files'.
RECURSIVE filesOf(_)
filesOf(rawFiles) ==
    IF rawFiles = <<>> THEN [err |-> FALSE, files |-> <<>>]
    ELSE LET entry == Head(rawFiles)
         IN  IF entry[1] # "dict" THEN [err |-> TRUE, files |-> <<>>]
             ELSE LET rawPath == lookupType(entry[2], keyPath, "list")
                  IN  IF rawPath = absent THEN [err |-> TRUE, files |-> <<>>]
                      ELSE LET p == pathOf(rawPath[2])
                               t == filesOf(Tail(rawFiles))
                           IN  IF p.err \/ t.err
                               THEN [err |-> TRUE, files |-> <<>>]
                               ELSE [err |-> FALSE,
                                     files |->
                                       <<[Length |-> getInt(entry[2], keyLength),
                                          MD5 |-> getString(entry[2], keyMD5Sum),
                                          Path |-> p.path]>> \o t.files]

\* parser.parseFiles: no files when 'files' is missing or not a list.
parseFiles(data) ==
    LET rawFiles == lookupType(data, keyFiles, "list")
    IN  IF rawFiles = absent THEN [err |-> FALSE, files |-> <<>>]
        ELSE filesOf(rawFiles[2])

\* parser.parseInfo
parseInfo(data) ==
    LET infoDict == lookupType(data, keyInfoDict, "dict")
        failure == [err |-> TRUE, info |-> <<>>]
    IN  IF infoDict = absent THEN failure
        ELSE LET infoHash == calculateSHA1Hash(infoDict)
                 piecesStr == lookupType(infoDict[2], keyPieces, "str")
                 files == parseFiles(infoDict[2])
             IN  IF infoHash.err THEN failure
                 ELSE IF piecesStr = absent THEN failure
                 ELSE IF ~validPiecesLength(piecesStr[2]) THEN failure
                 ELSE IF files.err THEN failure
                 ELSE [err |-> FALSE,
                       info |->
                         [Hash |-> infoHash.hash,
                          Name |-> getString(infoDict[2], keyName),
                          PieceLen |-> getInt(infoDict[2], keyPieceLength),
                          Pieces |-> splitPieces(piecesStr[2]),
                          IsPrivate |-> getInt(infoDict[2], keyPrivate) = 1,
                          Length |-> getInt(infoDict[2], keyLength),
                          Files |-> files.files]]

RECURSIVE sumLengths(_)
sumLengths(files) ==
    IF files = <<>> THEN 0 ELSE Head(files).Length + sumLengths(Tail(files))

\* Info.Size: the single length, or the sum of the file lengths.
Size(info) ==
    IF Len(info.Files) = 0 THEN info.Length ELSE sumLengths(info.Files)

\* A URL appended whether or not it is there already.
addURLAgain(urls, u) == Append(urls, u)

\* urls[urlStr] = struct{}{} on the keys of the map, in one order of range.
addURL(urls, u) == IF u \in Range(urls) THEN urls ELSE Append(urls, u)

\* parseAnnounce, the loop over one tier: its strings are added.
RECURSIVE tierURLs(_, _)
tierURLs(urls, tierList) ==
    IF tierList = <<>> THEN urls
    ELSE tierURLs(IF Head(tierList)[1] = "str"
                  THEN addURL(urls, Head(tierList)[2]) ELSE urls,
                  Tail(tierList))

\* parseAnnounce, the loop over 'announce-list': the tiers that are lists.
RECURSIVE listURLs(_, _)
listURLs(urls, rawList) ==
    IF rawList = <<>> THEN urls
    ELSE listURLs(IF Head(rawList)[1] = "list"
                  THEN tierURLs(urls, Head(rawList)[2]) ELSE urls,
                  Tail(rawList))

\* parser.parseAnnounce
parseAnnounce(data) ==
    LET rawList == lookupType(data, keyAnnounceList, "list")
        tiered == IF rawList = absent THEN <<>> ELSE listURLs(<<>>, rawList[2])
        announce == getString(data, keyAnnounce)
        urls == IF announce # <<>> THEN addURL(tiered, announce) ELSE tiered
    IN  IF Len(urls) = 0 THEN [err |-> TRUE, urls |-> <<>>]
        ELSE [err |-> FALSE, urls |-> urls]

\* parser.parse
parse(data) ==
    LET info == parseInfo(data)
        announceURLs == parseAnnounce(data)
    IN  IF info.err THEN [err |-> TRUE, torrent |-> <<>>]
        ELSE IF announceURLs.err THEN [err |-> TRUE, torrent |-> <<>>]
        ELSE [err |-> FALSE,
              torrent |->
                [Info |-> info.info,
                 AnnounceURLs |-> announceURLs.urls,
                 CreationDate |-> getInt(data, keyCreationDate),
                 Comment |-> getString(data, keyComment),
                 CreatedBy |-> getString(data, keyCreatedBy),
                 Size |-> Size(info.info)]]

\* newParser: the decoded top-level value, which must be a dictionary.
newParser(bytes) ==
    LET unmarshalled == Unmarshal(bytes)
    IN  IF unmarshalled.err THEN [err |-> TRUE, data |-> <<>>]
        ELSE IF unmarshalled.val[1] # "dict" THEN [err |-> TRUE, data |-> <<>>]
        ELSE [err |-> FALSE, data |-> unmarshalled.val[2]]

\* torrent.New
New(bytes) ==
    LET p == newParser(bytes)
    IN  IF p.err THEN [err |-> TRUE, torrent |-> <<>>] ELSE parse(p.data)

(***************************************************************************)
(* The torrent files handed to New: the canonical bencoding of a top-level *)
(* value put together from the choices below.                              *)
(***************************************************************************)
\* Largest number of piece hashes in 'pieces'.
MaxPieces == 2

\* "http://a"
urlA == <<104, 116, 116, 112, 58, 47, 47, 97>>

\* "udp://b"
urlB == <<117, 100, 112, 58, 47, 47, 98>>

str(s) == <<"str", s>>

int(n) == <<"int", n>>

list(l) == <<"list", l>>

\* The map with the entries whose value is not absent.
dictOf(entries) == <<"dict", SelectSeq(entries, LAMBDA e : e[2] # absent)>>

\* n bytes 1, 2, ..., n.
bytesUpTo(n) == [i \in 1..n |-> i]

PiecesChoices ==
    {absent, int(7), str(bytesUpTo(sha1Size - 1))}
        \cup {str(bytesUpTo(k * sha1Size)) : k \in 0..MaxPieces}

PieceLengthChoices == {absent, int(16384)}

LengthChoices == {absent, int(20000), int(16384)}

file(length, path) == dictOf(<< <<keyLength, length>>, <<keyPath, path>> >>)

FilesChoices ==
    {absent,
     list(<<file(int(16384), list(<<str(<<97>>)>>))>>),
     list(<<file(int(10000), list(<<str(<<97>>)>>)),
            file(int(10000), list(<<str(<<98>>), str(<<99>>)>>))>>),
     list(<<str(<<97>>)>>),
     list(<<file(int(16384), str(<<97>>))>>),
     list(<<file(int(16384), list(<<int(1)>>))>>)}

InfoChoices ==
    {absent, str(<<97>>)}
        \cup {dictOf(<< <<keyName, str(<<97>>)>>, <<keyPieces, p>>,
                        <<keyPieceLength, pl>>, <<keyLength, l>>,
                        <<keyFiles, f>> >>) :
                 p \in PiecesChoices, pl \in PieceLengthChoices,
                 l \in LengthChoices, f \in FilesChoices}

AnnounceChoices == {absent, str(<<>>), str(urlA), int(1)}

AnnounceListChoices ==
    {absent,
     str(urlB),
     list(<<list(<<str(urlA)>>)>>),
     list(<<list(<<str(urlA), str(urlB)>>), list(<<str(urlA)>>)>>),
     list(<<list(<<str(<<>>)>>)>>),
     list(<<str(urlB), list(<<int(5), str(urlB)>>)>>)}

Metainfos ==
    {list(<<>>), int(3), str(<<97>>)}
        \cup {dictOf(<< <<keyInfoDict, i>>, <<keyAnnounce, a>>,
                        <<keyAnnounceList, al>> >>) :
                 i \in InfoChoices, a \in AnnounceChoices,
                 al \in AnnounceListChoices}

TorrentInit ==
    /\ SessionInit
    /\ NoObjects
    /\ input \in {[meta |-> m, file |-> Bencode(m)] : m \in Metainfos}
    /\ output = <<>>

\* torrent.New(bytes.NewReader(data)) on the bytes of the file.
CallNew ==
    /\ output = <<>>
    /\ output' = <<New(input.file)>>
    /\ UNCHANGED <<input, sessionVars, objectVars>>

TorrentNext == CallNew

SpecTorrent == TorrentInit /\ [][TorrentNext]_vars

(***************************************************************************)
(* Properties of the metainfo parser.  They are stated on the top-level    *)
(* value input.meta that the file input.file encodes.                      *)
(***************************************************************************)
\* The entries of the top-level value, none when it is not a mapping.
metaEntries == IF input.meta[1] = "dict" THEN input.meta[2] ELSE <<>>

\* The 'info' mapping of the file, absent when missing or not a mapping.
metaInfo == lookupType(metaEntries, keyInfoDict, "dict")

\* The 'pieces' byte string of the file, absent when missing or no string.
metaPieces ==
    IF metaInfo = absent THEN absent
    ELSE lookupType(metaInfo[2], keyPieces, "str")

\* The strings in the tiers of 'announce-list' together with the
\* 'announce' URL, if there is one (a non-empty string).
metaURLs ==
    LET al == lookupType(metaEntries, keyAnnounceList, "list")
        tiers == IF al = absent THEN {}
                 ELSE {al[2][i] : i \in {j \in DOMAIN al[2] : al[2][j][1] = "list"}}
        a == lookupType(metaEntries, keyAnnounce, "str")
    IN  UNION {{t[2][j][2] : j \in {k \in DOMAIN t[2] : t[2][k][1] = "str"}} :
                  t \in tiers}
            \cup (IF a = absent \/ a[2] = <<>> THEN {} ELSE {a[2]})

\* 'files' is a list with an entry that is not a mapping or whose 'path'
\* is not a list of strings.
metaFilesMalformed ==
    /\ metaInfo # absent
    /\ LET fs == lookupType(metaInfo[2], keyFiles, "list")
       IN  /\ fs # absent
           /\ \E i \in DOMAIN fs[2] :
                \/ fs[2][i][1] # "dict"
                \/ LET p == lookupType(fs[2][i][2], keyPath, "list")
                   IN  \/ p = absent
                       \/ \E j \in DOMAIN p[2] : p[2][j][1] # "str"

\* The top-level value is not a mapping, 'info' is missing or not a
\* mapping, 'pieces' is missing or not a multiple of 20 bytes long, or no
\* announce URL results.
metaRejected ==
    \/ input.meta[1] # "dict"
    \/ metaInfo = absent
    \/ metaPieces = absent
    \/ Len(metaPieces[2]) % 20 # 0
    \/ metaURLs = {}

\* The piece hashes are the consecutive 20-byte slices of 'pieces'.
piecesInOrder(t) ==
    /\ Len(t.Info.Pieces) * 20 = Len(metaPieces[2])
    /\ \A i \in DOMAIN t.Info.Pieces :
          t.Info.Pieces[i] = SubSeq(metaPieces[2], 20 * (i - 1) + 1, 20 * i)

\* C16: the info-hash of a parsed torrent is the SHA-1 of the canonical
\* bencoding of the decoded info dictionary, which for a canonically
\* encoded file is the SHA-1 of the info bytes of the file.
C16_InfoHash ==
    (output # <<>> /\ ~output[1].err) =>
        output[1].torrent.Info.Hash = sha1Sum(Bencode(metaInfo))

\* C17 as stated: parsing fails, yielding no Torrent, when the top-level
\* value is not a mapping, 'info' is missing or not a mapping, 'pieces' is
\* missing or not a multiple of 20 bytes long, or no announce URL results;
\* otherwise it yields len(pieces)/20 piece hashes, the i-th being bytes
\* [20i, 20i+20) of 'pieces'.
C17_ParseOrPieces ==
    output # <<>> =>
        IF metaRejected
        THEN output[1].err /\ output[1].torrent = <<>>
        ELSE ~output[1].err /\ piecesInOrder(output[1].torrent)

\* C17 amended: parsing also fails when 'files' is a list with an entry
\* that is not a mapping or whose 'path' is not a list of strings; in
\* every other case it yields the piece hashes as stated.
C17_ParseFilesOrPieces ==
    output # <<>> =>
        IF metaRejected \/ metaFilesMalformed
        THEN output[1].err /\ output[1].torrent = <<>>
        ELSE ~output[1].err /\ piecesInOrder(output[1].torrent)

\* C17 witness: a file with 40 bytes of 'pieces' has been parsed into two
\* piece hashes, the second being bytes 21..40.
C17_Witness ==
    /\ output # <<>>
    /\ ~output[1].err
    /\ Len(output[1].torrent.Info.Pieces) = 2
    /\ output[1].torrent.Info.Pieces[2] = [i \in 1..20 |-> 20 + i]

C19_PieceCount ==
    (output # <<>> /\ ~output[1].err) =>
        LET t == output[1].torrent
        IN  /\ t.Info.PieceLen > 0
            /\ t.Size = Size(t.Info)
            /\ Len(t.Info.Pieces)
                   = (t.Size + t.Info.PieceLen - 1) \div t.Info.PieceLen

(***************************************************************************)
(* Part 5: the peers of a tracker response (package tracker, http.go).     *)
(***************************************************************************)
\* const peerSize = 6: 4 bytes for the IP, 2 for the port.
peerSize == 6

\* Length of the longest compact peer string.
MaxPeerBytes == 12

\* The loop of parseCompactPeers, at index i, over the slice peers, which
\* make([]*Peer, 0, numPeers) created with length 0 and which the loop
\* never extends: peers[i] is an index out of range, a run-time panic.  An
\* element of the slice is a pointer, <<>> when nil and <<p>> when it
\* points to the Peer p.  The loop runs while i < len(peerData).
RECURSIVE compactPeersLoop(_, _, _)
compactPeersLoop(peerData, peers, i) ==
    IF ~(i < Len(peerData)) THEN [kind |-> "ok", peers |-> peers]
    ELSE IF ~(i < Len(peers)) THEN [kind |-> "panic", peers |-> <<>>]
    ELSE IF peers[i + 1] = <<>> THEN [kind |-> "panic", peers |-> <<>>]
    ELSE IF i * peerSize + 6 > Len(peerData)
        THEN [kind |-> "panic", peers |-> <<>>]
    ELSE compactPeersLoop(
             peerData,
             [peers EXCEPT ![i + 1] =
                 <<[IP |-> SubSeq(peerData, i * peerSize + 1, i * peerSize + 4),
                    Port |-> peerData[i * peerSize + 5] * 256
                               + peerData[i * peerSize + 6]]>>],
             i + 1)

\* parseCompactPeers: an error for a length that is no multiple of
\* peerSize, otherwise the loop over a slice of length 0.
parseCompactPeers(peerData) ==
    IF Len(peerData) % peerSize # 0 THEN [kind |-> "err", peers |-> <<>>]
    ELSE compactPeersLoop(peerData, <<>>, 0)

\* The bytes of a compact peer string.
PeerByteChoices == {1, 225}

\* 7f 00 00 01 1a e1: 127.0.0.1:6881
peerLocalhost == <<127, 0, 0, 1, 26, 225>>

PeersInit ==
    /\ SessionInit
    /\ NoObjects
    /\ input \in SeqsUpTo(PeerByteChoices, MaxPeerBytes) \cup {peerLocalhost}
    /\ output = <<>>

\* parsePeers, case string: parseCompactPeers([]byte(peers)).
CallParseCompactPeers ==
    /\ output = <<>>
    /\ output' = <<parseCompactPeers(input)>>
    /\ UNCHANGED <<input, sessionVars, objectVars>>

PeersNext == CallParseCompactPeers

SpecPeers == PeersInit /\ [][PeersNext]_vars

\* C20: a compact peers string of length 6k decodes to exactly k peers,
\* the j-th with the IP bytes [6j, 6j+4) and the big-endian port of bytes
\* [6j+4, 6j+6); a length that is no multiple of 6 is an error.
C20_CompactPeers ==
    output # <<>> =>
        IF Len(input) % 6 = 0
        THEN /\ output[1].kind = "ok"
             /\ Len(output[1].peers) = Len(input) \div 6
             /\ \A j \in DOMAIN output[1].peers :
                   /\ output[1].peers[j][1].IP
                          = SubSeq(input, 6 * (j - 1) + 1, 6 * (j - 1) + 4)
                   /\ output[1].peers[j][1].Port
                          = 256 * input[6 * (j - 1) + 5] + input[6 * (j - 1) + 6]
        ELSE output[1].kind = "err"

(***************************************************************************)
(* Part 6: the decoding of a tracker response (package tracker, http.go).  *)
(***************************************************************************)
\* "failure reason"
keyFailureReason == <<102, 97, 105, 108, 117, 114, 101, 32, 114, 101, 97, 115, 111, 110>>

\* "warning message"
keyWarningMsg == <<119, 97, 114, 110, 105, 110, 103, 32, 109, 101, 115, 115, 97, 103, 101>>

\* "interval"
keyInterval == <<105, 110, 116, 101, 114, 118, 97, 108>>

\* "min interval"
keyMinInterval == <<109, 105, 110, 32, 105, 110, 116, 101, 114, 118, 97, 108>>

\* "tracker id"
keyTrackerID == <<116, 114, 97, 99, 107, 101, 114, 32, 105, 100>>

\* "complete"
keyComplete == <<99, 111, 109, 112, 108, 101, 116, 101>>

\* "incomplete"
keyIncomplete == <<105, 110, 99, 111, 109, 112, 108, 101, 116, 101>>

\* "peers"
keyPeers == <<112, 101, 101, 114, 115>>

\* "peer id"
keyPeerID == <<112, 101, 101, 114, 32, 105, 100>>

\* "ip"
keyPeerIP == <<105, 112>>

\* "port"
keyPeerPort == <<112, 111, 114, 116>>

chDot == 46

\* The fields of s between its dots.
RECURSIVE splitDots(_, _, _)
splitDots(s, cur, acc) ==
    IF s = <<>> THEN Append(acc, cur)
    ELSE IF Head(s) = chDot THEN splitDots(Tail(s), <<>>, Append(acc, cur))
    ELSE splitDots(Tail(s), Append(cur, Head(s)), acc)

\* A field of a dotted-decimal address: one to three digits, at most 255,
\* no leading zero.
ipField(f) ==
    /\ Len(f) \in 1..3
    /\ \A i \in DOMAIN f : IsDigit(f[i])
    /\ Len(f) > 1 => f[1] # chZero
    /\ parseDigits(f, 0).val <= 255

\* net.ParseIP on a string without ':': the four bytes of a
\* dotted-decimal IPv4 address, nil (<<>>) for any other string.
ParseIP(s) ==
    LET fs == splitDots(s, <<>>, <<>>)
    IN  IF Len(fs) = 4 /\ \A i \in 1..4 : ipField(fs[i])
        THEN [i \in 1..4 |-> parseDigits(fs[i], 0).val]
        ELSE <<>>

\* uint16(portVal)
Uint16(n) == n % 65536

\* parseDictPeers: a Peer for every entry of the list, an error at the
\* first entry that is no dictionary, has no string 'ip' or no integer
\* 'port', or whose 'ip' is no IP address.  'peer id' is optional.
RECURSIVE parseDictPeers(_, _)
parseDictPeers(peerList, peers) ==
    IF peerList = <<>> THEN [kind |-> "ok", peers |-> peers]
    ELSE LET item == Head(peerList)
         IN  IF item[1] # "dict" THEN [kind |-> "err", peers |-> <<>>]
             ELSE LET ipStr == lookupType(item[2], keyPeerIP, "str")
                      portVal == lookupType(item[2], keyPeerPort, "int")
                      id == lookupType(item[2], keyPeerID, "str")
                  IN  IF ipStr = absent THEN [kind |-> "err", peers |-> <<>>]
                      ELSE IF portVal = absent
                          THEN [kind |-> "err", peers |-> <<>>]
                      ELSE IF ParseIP(ipStr[2]) = <<>>
                          THEN [kind |-> "err", peers |-> <<>>]
                      ELSE parseDictPeers(
                               Tail(peerList),
                               Append(peers,
                                   <<[ID |-> IF id = absent THEN <<>> ELSE id[2],
                                      IP |-> ParseIP(ipStr[2]),
                                      Port |-> Uint16(portVal[2])]>>))

\* parsePeers: no peers without the key, the compact form for a string,
\* the dictionary form for a list, an error for any other type.
parsePeers(data) ==
    LET peersData == lookup(data, keyPeers)
    IN  IF peersData = absent THEN [kind |-> "ok", peers |-> <<>>]
        ELSE IF peersData[1] = "str" THEN parseCompactPeers(peersData[2])
        ELSE IF peersData[1] = "list" THEN parseDictPeers(peersData[2], <<>>)
        ELSE [kind |-> "err", peers |-> <<>>]

\* The getInt64 closure of parseTrackerResponse: the integer at key and
\* whether there is one.
getInt64(data, key) ==
    LET v == lookupType(data, key, "int")
    IN  IF v = absent THEN [num |-> 0, ok |-> FALSE]
        ELSE [num |-> v[2], ok |-> TRUE]

\* The outcome of parseTrackerResponse: an error (kind "err"), a run-time
\* panic (kind "panic") or the AnnounceResponse res (kind "ok").
noResponse(kind) == [kind |-> kind, res |-> <<>>]

\* if failure, ok := data[keyFailureReason].(string); ok
failureReason(data) == lookupType(data, keyFailureReason, "str") # absent

\* parseTrackerResponse on the bytes r of the response body.
parseTrackerResponseOf(r) ==
    LET raw == Unmarshal(r)
    IN  IF raw.err THEN noResponse("err")
        ELSE IF raw.val[1] # "dict" THEN noResponse("err")
        ELSE LET data == raw.val[2]
                 interval == getInt64(data, keyInterval)
                 minInterval == getInt64(data, keyMinInterval).num
                 complete == getInt64(data, keyComplete).num
                 incomplete == getInt64(data, keyIncomplete).num
                 trackerID == getString(data, keyTrackerID)
                 peers == parsePeers(data)
             IN  IF failureReason(data) THEN noResponse("err")
                 ELSE IF ~interval.ok THEN noResponse("err")
                 ELSE IF peers.kind # "ok" THEN noResponse(peers.kind)
                 ELSE [kind |-> "ok",
                       res |-> [Peers |-> peers.peers,
                                TrackerID |-> trackerID,
                                Interval |-> Uint32(Num(interval.num)),
                                Seeders |-> Uint32(Num(complete)),
                                Leechers |-> Uint32(Num(incomplete)),
                                MinInterval |-> Uint32(Num(minInterval))]]

(***************************************************************************)
(* The response bodies handed to parseTrackerResponse: the bencoding of a  *)
(* value put together from the choices below, and bodies that are no       *)
(* bencoding.                                                              *)
(***************************************************************************)
\* "10.0.0.1"
peerAddress == <<49, 48, 46, 48, 46, 48, 46, 49>>

\* "10.0.0"
noAddress == <<49, 48, 46, 48, 46, 48>>

peerEntry(ip, port, id) ==
    dictOf(<< <<keyPeerIP, ip>>, <<keyPeerPort, port>>, <<keyPeerID, id>> >>)

FailureReasonChoices == {absent, str(<<97>>), int(1)}

WarningChoices == {absent, str(<<98>>)}

IntervalChoices == {absent, int(1800), int(0), int(0 - 1), str(<<49>>)}

\* 'min interval', 'complete' and 'incomplete'.
CountChoices == {<<absent, absent, absent>>, <<int(60), int(3), int(4)>>}

TrackerIDChoices == {absent, str(<<99>>)}

PeersChoices ==
    {absent, int(6),
     str(<<>>), str(peerLocalhost), str(peerLocalhost \o peerLocalhost),
     str(<<127, 0, 0, 1, 26>>),
     list(<<>>),
     list(<<peerEntry(str(peerAddress), int(6881), absent)>>),
     list(<<peerEntry(str(peerAddress), int(6881), str(<<100>>)),
            peerEntry(str(peerAddress), int(65536 + 80), absent)>>),
     list(<<int(1)>>),
     list(<<peerEntry(absent, int(6881), absent)>>),
     list(<<peerEntry(str(noAddress), int(6881), absent)>>),
     list(<<peerEntry(str(peerAddress), absent, absent)>>),
     list(<<peerEntry(str(peerAddress), int(6881), absent),
            peerEntry(str(peerAddress), str(<<49>>), absent)>>)}

Responses ==
    {list(<<>>), int(3), str(<<97>>)}
        \cup {dictOf(<< <<keyFailureReason, f>>, <<keyWarningMsg, w>>,
                        <<keyInterval, i>>, <<keyMinInterval, c[1]>>,
                        <<keyComplete, c[2]>>, <<keyIncomplete, c[3]>>,
                        <<keyTrackerID, t>>, <<keyPeers, p>> >>) :
                 f \in FailureReasonChoices, w \in WarningChoices,
                 i \in IntervalChoices, c \in CountChoices,
                 t \in TrackerIDChoices, p \in PeersChoices}

\* Bodies that are no bencoding: nothing, an unterminated dictionary.
BrokenBodies == {<<>>, <<bDict>>, <<bDict, 49, chColon, 97>>}

ResponseInit ==
    /\ SessionInit
    /\ NoObjects
    /\ input \in {[resp |-> m, body |-> Bencode(m)] : m \in Responses}
                     \cup {[resp |-> absent, body |-> s] : s \in BrokenBodies}
    /\ output = <<>>

\* parseTrackerResponse(resp.Body)
CallParseTrackerResponse ==
    /\ output = <<>>
    /\ output' = <<parseTrackerResponseOf(input.body)>>
    /\ UNCHANGED <<input, sessionVars, objectVars>>

ResponseNext == CallParseTrackerResponse

SpecResponse == ResponseInit /\ [][ResponseNext]_vars

(***************************************************************************)
(* Properties of the decoding of a tracker response, stated on the value   *)
(* input.resp that the body encodes (absent for a body that is no          *)
(* bencoding).                                                             *)
(***************************************************************************)
\* The entries of the response, none when it is not a mapping.
respEntries == IF input.resp[1] = "dict" THEN input.resp[2] ELSE <<>>

respPeers == lookup(respEntries, keyPeers)

\* A peer entry of the dictionary form that has a string 'ip' which is an
\* IP address and an integer 'port'.
peerEntryWellFormed(e) ==
    /\ e[1] = "dict"
    /\ lookup(e[2], keyPeerIP) = str(peerAddress)
    /\ lookup(e[2], keyPeerPort)[1] = "int"

\* The 'peers' field is present and neither a byte string nor a list, or
\* does not decode.
respPeersRejected ==
    /\ respPeers # absent
    /\ \/ respPeers[1] \notin {"str", "list"}
       \/ respPeers[1] = "str" /\ Len(respPeers[2]) % 6 # 0
       \/ respPeers[1] = "list"
              /\ \E i \in DOMAIN respPeers[2] :
                     ~peerEntryWellFormed(respPeers[2][i])

\* The response has to be rejected.
respRejected ==
    \/ input.resp[1] # "dict"
    \/ lookup(respEntries, keyFailureReason) # absent
    \/ lookup(respEntries, keyInterval)[1] # "int"
    \/ respPeersRejected

\* The value of an optional integer field in the AnnounceResponse.
respCount(key) ==
    LET v == lookup(respEntries, key)
    IN  IF v = absent THEN Zero ELSE Num(v[2])

\* C21: decoding a tracker response returns an error whenever the response
\* is not a mapping, contains a 'failure reason', lacks an integer
\* 'interval', or has a 'peers' field that is neither a byte string nor a
\* list or fails to decode; otherwise it succeeds with the given interval
\* and with absent optional fields zero or empty (a 'warning message'
\* never makes it fail).
C21_TrackerResponse ==
    output # <<>> =>
        IF respRejected THEN output[1].kind = "err"
        ELSE /\ output[1].kind = "ok"
             /\ output[1].res.Interval = Num(lookup(respEntries, keyInterval)[2])
             /\ output[1].res.MinInterval = respCount(keyMinInterval)
             /\ output[1].res.Seeders = respCount(keyComplete)
             /\ output[1].res.Leechers = respCount(keyIncomplete)
             /\ lookup(respEntries, keyTrackerID) = absent
                    => output[1].res.TrackerID = <<>>
             /\ respPeers = absent => output[1].res.Peers = <<>>

(***************************************************************************)
(* Part 7: the URL of an HTTP announce (package tracker, http.go).         *)
(*                                                                         *)
(* A URL is the record of its text before the query (base) and of its      *)
(* RawQuery, the sequence of the key=value pairs between the '&' of the    *)
(* query text, in the order of the text.                                   *)
(***************************************************************************)
paramInfoHash == "info_hash"

paramPeerID == "peer_id"

paramPort == "port"

paramUploaded == "uploaded"

paramDownloaded == "downloaded"

paramLeft == "left"

paramCompact == "compact"

paramEvent == "event"

\* url.Values.Add of net/url's parseQuery: value appended to the values of
\* key.
valuesAdd(q, key, value) ==
    IF \E i \in DOMAIN q : q[i][1] = key
    THEN [i \in DOMAIN q |->
             IF q[i][1] = key THEN <<key, Append(q[i][2], value)>> ELSE q[i]]
    ELSE Append(q, <<key, <<value>>>>)

\* reqURL.Query(): a new url.Values parsed from RawQuery, every key with
\* the list of its values.
RECURSIVE parseQuery(_, _)
parseQuery(rawQuery, q) ==
    IF rawQuery = <<>> THEN q
    ELSE parseQuery(Tail(rawQuery),
                    valuesAdd(q, Head(rawQuery)[1], Head(rawQuery)[2]))

Query(u) == parseQuery(u.RawQuery, <<>>)

\* q.Set(key, value): the values of key replaced by the one value.
Set(q, key, value) == mapPut(q, key, <<value>>)

\* The url.Values q that buildAnnounceURL fills in.
announceQuery(reqURL, params) ==
    LET q1 == Set(Query(reqURL), paramInfoHash, params.InfoHash)
        q2 == Set(q1, paramPeerID, params.PeerID)
        q3 == Set(q2, paramPort, FormatInt(params.Port))
        q4 == Set(q3, paramUploaded, FormatInt(params.Uploaded))
        q5 == Set(q4, paramDownloaded, FormatInt(params.Downloaded))
        q6 == Set(q5, paramLeft, FormatInt(params.Left))
        q7 == Set(q6, paramCompact, <<chZero + 1>>)
    IN  IF params.Event # "" THEN Set(q7, paramEvent, params.Event) ELSE q7

\* reqURL.String(): the URL with the RawQuery it holds.
String(u) == [base |-> u.base, RawQuery |-> u.RawQuery]

\* buildAnnounceURL: q is filled in and dropped; it is never encoded into
\* reqURL.RawQuery, and the text returned is that of the copy of
\* c.announceURL.
buildAnnounceURL(c, params) ==
    LET reqURL == c.announceURL
        q == announceQuery(reqURL, params)
    IN  String(reqURL)

\* Announce up to client.Do(req): the GET request for the URL that
\* buildAnnounceURL returns.
AnnounceRequest(c, params) ==
    [method |-> "GET", url |-> buildAnnounceURL(c, params)]

(***************************************************************************)
(* The clients and announce parameters of the examination.                 *)
(***************************************************************************)
\* "passkey" and "x"
paramPasskey == "passkey"

\* The announce URLs of the client: without a query, with a query of the
\* tracker's own, with a query that names an announce parameter.
ClientChoices ==
    {[announceURL |-> [base |-> "http://a/announce", RawQuery |-> rq]] :
        rq \in {<<>>,
                << <<paramPasskey, <<120>>>> >>,
                << <<paramCompact, <<chZero>>>>, <<paramPasskey, <<120>>>> >>}}

HashChoices == {[i \in 1..sha1Size |-> 1], bytesUpTo(sha1Size)}

\* Uploaded, Downloaded and Left.
ByteCountChoices == {<<0, 0, 32768>>, <<16384, 16384, 0>>}

AnnounceParamsChoices ==
    {[InfoHash |-> h, PeerID |-> p, Port |-> port,
      Uploaded |-> n[1], Downloaded |-> n[2], Left |-> n[3], Event |-> e] :
        h \in HashChoices, p \in HashChoices, port \in {6881, 65535},
        n \in ByteCountChoices,
        e \in {"", EventStarted, EventCompleted, EventStopped}}

AnnounceURLInit ==
    /\ SessionInit
    /\ NoObjects
    /\ input \in {[c |-> c, params |-> p] :
                     c \in ClientChoices, p \in AnnounceParamsChoices}
    /\ output = <<>>

\* c.Announce(ctx, params) up to the request it sends.
CallAnnounce ==
    /\ output = <<>>
    /\ output' = <<AnnounceRequest(input.c, input.params)>>
    /\ UNCHANGED <<input, sessionVars, objectVars>>

AnnounceURLNext == CallAnnounce

SpecAnnounceURL == AnnounceURLInit /\ [][AnnounceURLNext]_vars

\* The query parameters of the URL of the request: key -> values.
requestedQuery == Query(output[1].url)

\* The URL of the request has the one value for the parameter key.
hasParam(key, value) == lookup(requestedQuery, key) = <<value>>

\* C22: the URL requested by an HTTP announce has the query parameters
\* info_hash, peer_id, port, uploaded, downloaded, left and compact=1 with
\* the values of the announce parameters, and has event exactly when the
\* event is not empty.
C22_AnnounceURL ==
    output # <<>> =>
        /\ hasParam(paramInfoHash, input.params.InfoHash)
        /\ hasParam(paramPeerID, input.params.PeerID)
        /\ hasParam(paramPort, FormatInt(input.params.Port))
        /\ hasParam(paramUploaded, FormatInt(input.params.Uploaded))
        /\ hasParam(paramDownloaded, FormatInt(input.params.Downloaded))
        /\ hasParam(paramLeft, FormatInt(input.params.Left))
        /\ hasParam(paramCompact, <<chZero + 1>>)
        /\ IF input.params.Event = ""
           THEN lookup(requestedQuery, paramEvent) = absent
           ELSE hasParam(paramEvent, input.params.Event)

(***************************************************************************)
(* Part 8: the pieces of a torrent (package torrent, piece.go).            *)
(*                                                                         *)
(* A byte slice is the sequence of its runs [fill, n]: n bytes of value    *)
(* fill, with no empty run and no two adjacent runs of the same value.  A  *)
(* slice that may be nil is <<>> when nil and <<b>> when it is the byte    *)
(* slice b; a *Block is <<>> or <<block>> likewise.  Every method holds    *)
(* the piece's lock from its first to its last statement and is one step.  *)
(***************************************************************************)
\* const BlockSize = 16 * 1024
BlockSize == 16 * 1024

PieceStateNone == 0

PieceStatePending == 1

PieceStateComplete == 2

\* len(b)
RECURSIVE bytesLen(_)
bytesLen(b) == IF b = <<>> THEN 0 ELSE Head(b).n + bytesLen(Tail(b))

\* The runs of b without the empty ones and with adjacent runs of one value
\* joined.
RECURSIVE joinRuns(_)
joinRuns(b) ==
    IF b = <<>> THEN <<>>
    ELSE IF Head(b).n = 0 THEN joinRuns(Tail(b))
    ELSE LET rest == joinRuns(Tail(b))
         IN  IF rest # <<>> /\ Head(rest).fill = Head(b).fill
             THEN <<[fill |-> Head(b).fill, n |-> Head(b).n + Head(rest).n]>>
                      \o Tail(rest)
             ELSE <<Head(b)>> \o rest

\* b[:k]
RECURSIVE bytesTake(_, _)
bytesTake(b, k) ==
    IF b = <<>> \/ k = 0 THEN <<>>
    ELSE IF Head(b).n <= k
        THEN <<Head(b)>> \o bytesTake(Tail(b), k - Head(b).n)
    ELSE <<[Head(b) EXCEPT !.n = k]>>

\* b[k:]
RECURSIVE bytesDrop(_, _)
bytesDrop(b, k) ==
    IF b = <<>> \/ k = 0 THEN b
    ELSE IF Head(b).n <= k THEN bytesDrop(Tail(b), k - Head(b).n)
    ELSE <<[Head(b) EXCEPT !.n = @ - k]>> \o Tail(b)

\* make([]byte, n)
makeBytes(n) == joinRuns(<<[fill |-> 0, n |-> n]>>)

\* copy(dst, src) for every offset: the block is put at the start.
copyAtStart(dst, begin, src) ==
    LET k == IF bytesLen(src) < bytesLen(dst)
             THEN bytesLen(src) ELSE bytesLen(dst)
    IN  joinRuns(bytesTake(src, k) \o bytesDrop(dst, k))

\* dst after copy(dst[begin:], src): as many bytes of src as fit.
copyAt(dst, begin, src) ==
    LET room == bytesLen(dst) - begin
        k == IF bytesLen(src) < room THEN bytesLen(src) ELSE room
    IN  joinRuns(bytesTake(dst, begin) \o bytesTake(src, k)
                     \o bytesDrop(dst, begin + k))

\* NewPiece: the number of blocks.
numBlocksOf(length) ==
    IF length % BlockSize # 0 THEN length \div BlockSize + 1
    ELSE length \div BlockSize

\* Every block of the full block size, the last one included.
newBlockFullSize(i, numBlocks, length) ==
    [Index |-> i, Begin |-> i * BlockSize, Length |-> BlockSize, Data |-> <<>>]

\* NewPiece: block i of numBlocks.
newBlock(i, numBlocks, length) ==
    [Index |-> i, Begin |-> i * BlockSize,
     Length |-> IF i = numBlocks - 1 /\ length % BlockSize # 0
                THEN length % BlockSize ELSE BlockSize,
     Data |-> <<>>]

\* Blocks[i] of the source is Blocks[i + 1] here; Requested is the set of
\* the keys of the map (its values are all true).
NewPiece(index, length, hash) ==
    [Index |-> index, Hash |-> hash, Length |-> length, Downloaded |-> 0,
     Blocks |-> [i \in 1..numBlocksOf(length) |->
                    newBlock(i - 1, numBlocksOf(length), length)],
     State |-> PieceStateNone, Requested |-> {}]

MarkRequested(p, blockIndex) ==
    IF blockIndex < 0 \/ blockIndex > Len(p.Blocks) THEN p
    ELSE [p EXCEPT !.Requested = @ \cup {blockIndex},
                   !.State = PieceStatePending]

\* A block is accepted whatever the length of its data.
lengthMismatchNever(data, block) == FALSE

\* if len(data) != block.Length
lengthMismatch(data, block) == bytesLen(data) # block.Length

\* AddBlock: the first block that begins at begin takes the data.
AddBlock(p, begin, data) ==
    IF \A i \in DOMAIN p.Blocks : p.Blocks[i].Begin # begin
    THEN [piece |-> p, err |-> TRUE]
    ELSE LET i == CHOOSE j \in DOMAIN p.Blocks :
                      /\ p.Blocks[j].Begin = begin
                      /\ \A k \in 1..(j - 1) : p.Blocks[k].Begin # begin
         IN  IF lengthMismatch(data, p.Blocks[i])
             THEN [piece |-> p, err |-> TRUE]
             ELSE [piece |-> [p EXCEPT !.Blocks[i].Data = <<data>>,
                                       !.Downloaded = @ + bytesLen(data)],
                   err |-> FALSE]

IsComplete(p) == p.Length = p.Downloaded

\* The loop of AssembleData over the blocks from index i on.
RECURSIVE assembleLoop(_, _, _)
assembleLoop(p, data, i) ==
    IF i > Len(p.Blocks) THEN data
    ELSE IF p.Blocks[i].Data = <<>> THEN assembleLoop(p, data, i + 1)
    ELSE assembleLoop(p,
                      copyAt(data, p.Blocks[i].Begin, p.Blocks[i].Data[1]),
                      i + 1)

AssembleData(p) ==
    IF ~IsComplete(p) THEN <<>>
    ELSE <<assembleLoop(p, makeBytes(p.Length), 1)>>

Verify(p) ==
    IF ~IsComplete(p) THEN FALSE
    ELSE IF AssembleData(p) = <<>> THEN FALSE
    ELSE p.Hash = sha1Sum(AssembleData(p)[1])

\* The test by which the loop of NextRequest passes over a block.
nextRequestSkips(p, block) ==
    block.Data = <<>> \/ block.Index \in p.Requested

\* NextRequest: the first block the loop does not pass over is marked
\* requested and returned; nil when it passes over all.
NextRequest(p) ==
    IF \A i \in DOMAIN p.Blocks : nextRequestSkips(p, p.Blocks[i])
    THEN [piece |-> p, block |-> <<>>]
    ELSE LET i == CHOOSE j \in DOMAIN p.Blocks :
                      /\ ~nextRequestSkips(p, p.Blocks[j])
                      /\ \A k \in 1..(j - 1) : nextRequestSkips(p, p.Blocks[k])
         IN  [piece |-> [p EXCEPT !.Requested = @ \cup {p.Blocks[i].Index}],
              block |-> <<p.Blocks[i]>>]

GetState(p) == p.State

ResetRequests(p) ==
    [p EXCEPT !.Requested = {},
              !.State = IF @ = PieceStatePending THEN PieceStateNone ELSE @]

(***************************************************************************)
(* The piece under examination and the calls made on it.  output holds the *)
(* record of the last call: its number n, the method op and its arguments, *)
(* what it returned, the piece before the call, and the AddBlock calls     *)
(* that returned no error so far (adds).                                   *)
(***************************************************************************)
\* Number of calls made on the piece.
MaxPieceCalls == 4

\* The lengths of the piece: no block, one full block, a full and a short
\* block, two full blocks and a short one.
PieceLengthsChoices == {0, BlockSize, 20000, 2 * BlockSize + 1}

\* The data of a block message: n bytes of one value, or a first byte and
\* n - 1 bytes of another value.
blockPayload(first, fill, n) ==
    joinRuns(<<[fill |-> first, n |-> 1], [fill |-> fill, n |-> n - 1]>>)

\* The data handed to AddBlock for a block of the given length: two
\* payloads of that length, one a byte short, one a byte long, none.
DataChoices(length) ==
    {blockPayload(7, 7, length), blockPayload(0, 9, length),
     blockPayload(7, 7, length - 1), blockPayload(7, 7, length + 1), <<>>}

\* The offsets handed to AddBlock: the start of every block of the
\* largest piece, an offset inside a block, the end of the largest piece.
BeginChoices == {0, BlockSize, 2 * BlockSize, 5, 2 * BlockSize + 1}

\* The length of the block that contains the offset begin, BlockSize
\* outside the piece.
blockLengthAt(p, begin) ==
    IF \E i \in DOMAIN p.Blocks :
           begin >= p.Blocks[i].Begin
               /\ begin < p.Blocks[i].Begin + p.Blocks[i].Length
    THEN (CHOOSE b \in {p.Blocks[i] : i \in DOMAIN p.Blocks} :
              begin >= b.Begin /\ begin < b.Begin + b.Length).Length
    ELSE BlockSize

\* The block indices handed to MarkRequested.
BlockIndexChoices == (0 - 1)..4

call(op, arg, ret, adds) ==
    <<[n |-> output[1].n + 1, op |-> op, arg |-> arg, ret |-> ret,
       before |-> piece, adds |-> adds]>>

PieceInit ==
    /\ SessionInit
    /\ input \in UNION {{[index |-> 0, length |-> l, hash |-> sha1Sum(h)] :
                              h \in {makeBytes(l), blockPayload(7, 7, l)}} :
                          l \in PieceLengthsChoices}
    /\ piece = NewPiece(input.index, input.length, input.hash)
    /\ goroutines = <<>>
    /\ peerChan = <<>>
    /\ panicked = FALSE
    /\ rwmutex = <<>>
    /\ output = <<[n |-> 0, op |-> "NewPiece", arg |-> <<>>, ret |-> <<>>,
                   before |-> <<>>, adds |-> <<>>]>>

CallMarkRequested(blockIndex) ==
    /\ output[1].n < MaxPieceCalls
    /\ piece' = MarkRequested(piece, blockIndex)
    /\ output' = call("MarkRequested", <<blockIndex>>, <<>>, output[1].adds)
    /\ UNCHANGED <<input, sessionVars, connectVars, rwmutex>>

CallAddBlock(begin, data) ==
    LET r == AddBlock(piece, begin, data)
    IN  /\ output[1].n < MaxPieceCalls
        /\ piece' = r.piece
        /\ output' = call("AddBlock", <<begin, data>>, r.err,
                          IF r.err THEN output[1].adds
                          ELSE Append(output[1].adds, <<begin, data>>))
        /\ UNCHANGED <<input, sessionVars, connectVars, rwmutex>>

CallIsComplete ==
    /\ output[1].n < MaxPieceCalls
    /\ output' = call("IsComplete", <<>>, IsComplete(piece), output[1].adds)
    /\ UNCHANGED <<input, sessionVars, piece, connectVars, rwmutex>>

CallAssembleData ==
    /\ output[1].n < MaxPieceCalls
    /\ output' = call("AssembleData", <<>>, AssembleData(piece),
                      output[1].adds)
    /\ UNCHANGED <<input, sessionVars, piece, connectVars, rwmutex>>

CallVerify ==
    /\ output[1].n < MaxPieceCalls
    /\ output' = call("Verify", <<>>, Verify(piece), output[1].adds)
    /\ UNCHANGED <<input, sessionVars, piece, connectVars, rwmutex>>

CallNextRequest ==
    LET r == NextRequest(piece)
    IN  /\ output[1].n < MaxPieceCalls
        /\ piece' = r.piece
        /\ output' = call("NextRequest", <<>>, r.block, output[1].adds)
        /\ UNCHANGED <<input, sessionVars, connectVars, rwmutex>>

CallGetState ==
    /\ output[1].n < MaxPieceCalls
    /\ output' = call("GetState", <<>>, GetState(piece), output[1].adds)
    /\ UNCHANGED <<input, sessionVars, piece, connectVars, rwmutex>>

CallResetRequests ==
    /\ output[1].n < MaxPieceCalls
    /\ piece' = ResetRequests(piece)
    /\ output' = call("ResetRequests", <<>>, <<>>, output[1].adds)
    /\ UNCHANGED <<input, sessionVars, connectVars, rwmutex>>

PieceNext ==
    \/ \E i \in BlockIndexChoices : CallMarkRequested(i)
    \/ \E begin \in BeginChoices :
           \E data \in DataChoices(blockLengthAt(piece, begin)) :
               CallAddBlock(begin, data)
    \/ CallIsComplete
    \/ CallAssembleData
    \/ CallVerify
    \/ CallNextRequest
    \/ CallGetState
    \/ CallResetRequests

SpecPiece == PieceInit /\ [][PieceNext]_vars

(***************************************************************************)
(* Properties of a piece, stated on the last call.                         *)
(***************************************************************************)
\* The indices (of the source) of the blocks of p without data that are
\* not marked requested.
unfetchedUnrequested(p) ==
    {p.Blocks[i].Index : i \in {j \in DOMAIN p.Blocks :
        p.Blocks[j].Data = <<>> /\ p.Blocks[j].Index \notin p.Requested}}

\* C23: nextRequest returns the lowest-indexed block of the piece that has
\* no data yet and is not marked requested, and none only when there is no
\* such block; on a freshly created piece with at least one block it
\* returns block 0.
C23_NextRequest ==
    output[1].op = "NextRequest" =>
        LET S == unfetchedUnrequested(output[1].before)
        IN  IF S = {} THEN output[1].ret = <<>>
            ELSE /\ output[1].ret # <<>>
                 /\ output[1].ret[1].Index \in S
                 /\ \A i \in S : output[1].ret[1].Index <= i

\* C24: markRequested(i) with i outside [0, number of blocks - 1] changes
\* nothing; with i in range it marks block i requested and sets the state
\* to Pending, and a second call with the same i leaves the piece
\* unchanged.
C24_MarkRequested ==
    output[1].op = "MarkRequested" =>
        LET i == output[1].arg[1]
            before == output[1].before
        IN  IF i < 0 \/ i > Len(before.Blocks) - 1 THEN piece = before
            ELSE /\ piece = [before EXCEPT !.Requested = @ \cup {i},
                                           !.State = PieceStatePending]
                 /\ MarkRequested(piece, i) = piece

\* The AddBlock calls that returned no error so far supplied every block
\* of the piece exactly once.
eachBlockOnce ==
    /\ Len(output[1].adds) = Len(piece.Blocks)
    /\ \A i \in DOMAIN piece.Blocks :
           \E k \in DOMAIN output[1].adds :
               output[1].adds[k][1] = piece.Blocks[i].Begin

\* The payload supplied for the block that begins at begin.
payloadAt(begin) ==
    output[1].adds[CHOOSE k \in DOMAIN output[1].adds :
                       output[1].adds[k][1] = begin][2]

\* The payloads of the blocks one after the other, in the order of their
\* offsets.
RECURSIVE payloadsFrom(_)
payloadsFrom(i) ==
    IF i > Len(piece.Blocks) THEN <<>>
    ELSE payloadAt(piece.Blocks[i].Begin) \o payloadsFrom(i + 1)

C26_WitnessNoBlock ==
    /\ output[1].op = "AddBlock"
    /\ output[1].ret = TRUE
    /\ \A i \in DOMAIN piece.Blocks : piece.Blocks[i].Begin # output[1].arg[1]
    /\ piece.Downloaded > 0

(***************************************************************************)
(* Part 9: the handshake of the peer protocol (package torrent,            *)
(* handshake.go).  A reader is the sequence of the bytes it still holds;   *)
(* io.ReadFull fails when fewer bytes than asked for are left.             *)
(***************************************************************************)
\* const szReservedBytes = 8
szReservedBytes == 8

\* "BitTorrent protocol"
protocolString ==
    <<66, 105, 116, 84, 111, 114, 114, 101, 110, 116, 32, 112, 114, 111, 116,
      111, 99, 111, 108>>

\* Conversion to byte, and the arithmetic of byte operands: modulo 2^8.
Byte(n) == n % 256

\* make([]byte, n): n zero bytes.
zeroBytes(n) == [i \in 1..n |-> 0]

newHandshake(infoHash, peerID) ==
    [pstr |-> protocolString, infoHash |-> infoHash, peerID |-> peerID]

\* serialize: <pstrlen><pstr><reserved><info_hash><peer_id> in a buffer of
\* len(pstr) + 49 bytes.
serialize(h) ==
    <<Byte(Len(h.pstr))>> \o h.pstr \o zeroBytes(szReservedBytes)
        \o h.infoHash \o h.peerID

\* The offset of the info-hash taken without the reserved bytes.
infoHashOffsetNoReserved(pstrlen) == pstrlen

\* pstrlen+szReservedBytes, of type byte: the offset of the info-hash in
\* handshakeBuf.
infoHashOffset(pstrlen) == Byte(pstrlen + szReservedBytes)

\* The outcome of readHanshake: an error, a run-time panic (a slice
\* expression out of range) or the handshake h, and the reader after it.
handshakeFailure(kind, rest) == [kind |-> kind, h |-> <<>>, rest |-> rest]

\* copy(dst[:], src) into an array of sha1.Size zero bytes.
copyIntoHash(src) ==
    [i \in 1..sha1Size |-> IF i <= Len(src) THEN src[i] ELSE 0]

\* readHanshake.  pstrlen is a byte, so 48+pstrlen and the slice bounds
\* are computed modulo 256; a slice expression with low > high or with a
\* bound above the capacity of handshakeBuf panics.
readHanshake(r) ==
    IF Len(r) < 1 THEN handshakeFailure("err", <<>>)
    ELSE LET pstrlen == r[1]
             size == Byte(48 + pstrlen)
             handshakeBuf == SubSeq(r, 2, 1 + size)
             rest == SubSeq(r, 2 + size, Len(r))
             lo == infoHashOffset(pstrlen)
             hi == Byte(lo + sha1Size)
         IN  IF pstrlen = 0 THEN handshakeFailure("err", Tail(r))
             ELSE IF Len(r) - 1 < size THEN handshakeFailure("err", <<>>)
             ELSE IF lo > hi \/ hi > size THEN handshakeFailure("panic", rest)
             ELSE IF pstrlen > size THEN handshakeFailure("panic", rest)
             ELSE [kind |-> "ok",
                   h |-> [pstr |-> SubSeq(handshakeBuf, 1, pstrlen),
                          infoHash |-> copyIntoHash(SubSeq(handshakeBuf,
                                                           lo + 1, hi)),
                          peerID |-> copyIntoHash(SubSeq(handshakeBuf,
                                                         hi + 1, size))],
                   rest |-> rest]

(***************************************************************************)
(* The handshakes serialized and the byte streams read.                    *)
(***************************************************************************)
\* A stream that begins with the length byte pstrlen, followed by n bytes
\* 1, 2, ..., n.
streamOf(pstrlen, n) == <<pstrlen>> \o bytesUpTo(n)

\* What follows a handshake on the stream: nothing, or a keep-alive.
TrailerChoices == {<<>>, zeroBytes(4)}

\* The streams handed to readHanshake besides serialized handshakes:
\* nothing, pstrlen 0, streams that end early, other protocol string
\* lengths, lengths from 208 on.
StreamChoices ==
    {<<>>, <<0>>, streamOf(0, 67), streamOf(19, 40), streamOf(19, 67),
     streamOf(1, 49), streamOf(1, 60), streamOf(207, 255), streamOf(207, 100),
     streamOf(208, 0), streamOf(208, 80), streamOf(230, 80),
     streamOf(248, 80), streamOf(255, 47), streamOf(255, 20)}

HandshakeInit ==
    /\ SessionInit
    /\ NoObjects
    /\ input \in {[h |-> newHandshake(ih, id), trailer |-> t, stream |-> s] :
                     ih \in HashChoices, id \in HashChoices,
                     t \in TrailerChoices, s \in StreamChoices}
    /\ output = <<>>

\* reqHandshake.serialize()
CallSerialize ==
    /\ output = <<>>
    /\ output' = <<[op |-> "serialize", ret |-> serialize(input.h)]>>
    /\ UNCHANGED <<input, sessionVars, objectVars>>

\* readHanshake on a connection that delivers the serialized handshake and
\* the trailer.
CallReadBack ==
    /\ Len(output) = 1
    /\ output[1].op = "serialize"
    /\ output' = Append(output,
                        [op |-> "readBack",
                         ret |-> readHanshake(output[1].ret \o input.trailer)])
    /\ UNCHANGED <<input, sessionVars, objectVars>>

\* readHanshake on a connection that delivers the stream.
CallReadHanshake ==
    /\ output = <<>>
    /\ output' = <<[op |-> "readHanshake", ret |-> readHanshake(input.stream)]>>
    /\ UNCHANGED <<input, sessionVars, objectVars>>

HandshakeNext == CallSerialize \/ CallReadBack \/ CallReadHanshake

SpecHandshake == HandshakeInit /\ [][HandshakeNext]_vars

\* C28: a handshake serializes to 68 bytes: the byte 19, the 19 bytes
\* 'BitTorrent protocol', 8 zero bytes, the 20-byte info-hash and the
\* 20-byte peer id; reading a serialized handshake back returns the same
\* protocol string, info-hash and peer id; a handshake whose first byte is
\* 0 is rejected with an error.
C28_Handshake ==
    \A k \in DOMAIN output :
        /\ output[k].op = "serialize" =>
               /\ Len(output[k].ret) = 68
               /\ output[k].ret[1] = 19
               /\ SubSeq(output[k].ret, 2, 20) = protocolString
               /\ SubSeq(output[k].ret, 21, 28) = <<0, 0, 0, 0, 0, 0, 0, 0>>
               /\ SubSeq(output[k].ret, 29, 48) = input.h.infoHash
               /\ SubSeq(output[k].ret, 49, 68) = input.h.peerID
        /\ output[k].op = "readBack" =>
               /\ output[k].ret.kind = "ok"
               /\ output[k].ret.h = input.h
               /\ output[k].ret.rest = input.trailer
        /\ (output[k].op = "readHanshake" /\ input.stream # <<>>
                /\ input.stream[1] = 0) => output[k].ret.kind = "err"

\* A handshake with different info-hash and peer id read back from a
\* stream that goes on after it, and a stream with pstrlen 0 rejected.
C28_Witness ==
    /\ Len(output) = 2
    /\ output[2].op = "readBack"
    /\ output[2].ret.kind = "ok"
    /\ input.h.infoHash # input.h.peerID
    /\ input.trailer # <<>>

C28_WitnessZero ==
    /\ Len(output) = 1
    /\ output[1].op = "readHanshake"
    /\ Len(input.stream) = 68
    /\ input.stream[1] = 0
    /\ output[1].ret.kind = "err"

(***************************************************************************)
(* Part 12: the bitfield of the pieces a peer has (package utils,          *)
(* bitfield.go).  A Bitfield is the sequence of its bytes; byte k of the   *)
(* source is element k + 1 here.                                           *)
(***************************************************************************)
\* a / b and a % b of Go for b > 0: the quotient is truncated toward zero
\* and the remainder has the sign of a.
quo(a, b) == IF a >= 0 THEN a \div b ELSE 0 - ((0 - a) \div b)

rem(a, b) == a - b * quo(a, b)

\* NewBitfield: make(Bitfield, (size + 7) / 8)
NewBitfield(size) == zeroBytes(quo(size + 7, 8))

\* 1 << (7 - bitIndex) in the type byte: zero when the shift is 8 or more.
mask(bitIndex) == Byte(2 ^ (7 - bitIndex))

\* b & m and b | m for a byte b and an m that is zero or has one bit set.
bitAnd(b, m) == IF m = 0 THEN 0 ELSE ((b \div m) % 2) * m

bitOr(b, m) == b + m - bitAnd(b, m)

\* Bitfield.Has
BitfieldHas(bf, index) ==
    LET byteIndex == quo(index, 8)
        bitIndex == rem(index, 8)
    IN  IF byteIndex < 0 \/ byteIndex >= Len(bf) THEN FALSE
        ELSE bitAnd(bf[byteIndex + 1], mask(bitIndex)) # 0

\* Bitfield.Set: the bitfield after the call.
BitfieldSet(bf, index) ==
    LET byteIndex == quo(index, 8)
        bitIndex == rem(index, 8)
    IN  IF byteIndex < 0 \/ byteIndex >= Len(bf) THEN bf
        ELSE [bf EXCEPT ![byteIndex + 1] = bitOr(@, mask(bitIndex))]

\* Number of calls made on the bitfield.
MaxBitfieldCalls == 3

\* The numbers of pieces: none, one, a full byte, a byte and two bits, two
\* bytes.
SizeChoices == {0, 1, 8, 10, 16}

\* The indices handed to Has and Set: below zero, inside every size, and
\* at and above the number of pieces.
IndexChoices == {0 - 9, 0 - 8, 0 - 1, 0, 1, 7, 8, 9, 10, 12, 15, 16, 17}

\* input is the number of pieces; output holds the bitfield (bf), the
\* number of calls made, and the last call with what it returned and the
\* bitfield before it.
BitfieldInit ==
    /\ SessionInit
    /\ NoObjects
    /\ input \in SizeChoices
    /\ output = [bf |-> NewBitfield(input), n |-> 0, op |-> "NewBitfield",
                 arg |-> input, ret |-> FALSE, before |-> <<>>]

CallHas(index) ==
    /\ output.n < MaxBitfieldCalls
    /\ output' = [output EXCEPT !.n = @ + 1, !.op = "Has", !.arg = index,
                                !.ret = BitfieldHas(output.bf, index),
                                !.before = output.bf]
    /\ UNCHANGED <<input, sessionVars, objectVars>>

CallSet(index) ==
    /\ output.n < MaxBitfieldCalls
    /\ output' = [output EXCEPT !.n = @ + 1, !.op = "Set", !.arg = index,
                                !.ret = FALSE,
                                !.bf = BitfieldSet(output.bf, index),
                                !.before = output.bf]
    /\ UNCHANGED <<input, sessionVars, objectVars>>

BitfieldNext ==
    \/ \E index \in IndexChoices : CallHas(index)
    \/ \E index \in IndexChoices : CallSet(index)

SpecBitfield == BitfieldInit /\ [][BitfieldNext]_vars

\* Bit 7 - (j mod 8) of byte j div 8 of bf is set, for 0 <= j < 8 * len.
bitAt(bf, j) == (bf[(j \div 8) + 1] \div (2 ^ (7 - (j % 8)))) % 2 = 1

\* C37: for a bitfield created for n pieces, Has(i) reports 'not present'
\* for every index i < 0 or i >= n after any sequence of Set calls with
\* arbitrary indices; for 0 <= i < n, Set(i) makes Has(i) true using the
\* bit 7 - (i mod 8) of byte i div 8 (MSB first) and changes no other bit.
C37_Bitfield ==
    /\ (output.op = "Has" /\ (output.arg < 0 \/ output.arg >= input))
           => output.ret = FALSE
    /\ (output.op = "Set" /\ output.arg >= 0 /\ output.arg < input) =>
           /\ BitfieldHas(output.bf, output.arg)
           /\ Len(output.bf) = Len(output.before)
           /\ \A j \in 0..(8 * Len(output.bf) - 1) :
                  bitAt(output.bf, j) =
                      (j = output.arg \/ bitAt(output.before, j))

\* The same with the calls of Has on the spare bits of the last byte set
\* aside.
bitfieldUpToSpareBits ==
    (output.op = "Has" /\ output.arg >= input
         /\ output.arg < 8 * Len(output.bf))
        \/ C37_Bitfield

(***************************************************************************)
(* Part 10: connecting to the peers a tracker reported (package torrent,   *)
(* peer.go).  ConnectToPeers starts one goroutine per remote peer; each    *)
(* dials, performs the handshake and sends the Peer on the buffered        *)
(* channel peerChan; ConnectToPeers waits for all of them, closes the      *)
(* channel and returns what it holds.  A remote peer is given by what the  *)
(* network does for it: whether the dial and the write succeed and which   *)
(* bytes the peer answers.  A panic in any goroutine ends the process.     *)
(***************************************************************************)
\* Largest number of remote peers handed to ConnectToPeers.
MaxRemotePeers == 2

\* fmt.Sprintf("%s:%d", remotePeer.IP, remotePeer.Port)
addrOf(remotePeer) == <<remotePeer.IP, remotePeer.Port>>

initialPeerState ==
    [amChoking |-> TRUE, amInterested |-> FALSE,
     peerChoking |-> TRUE, peerInterested |-> FALSE]

\* connectToPeer: the Peer after a successful dial.
newPeer(remotePeer, opts) ==
    [Addr |-> addrOf(remotePeer), conn |-> "open",
     state |-> initialPeerState, bitfield |-> NewBitfield(opts.Pieces)]

\* !bytes.Equal(resHandshake.infoHash[:], opts.InfoHash[:])
infoHashMismatch(resHandshake, opts) == resHandshake.infoHash # opts.InfoHash

\* !bytes.Equal(resHandshake.peerID[:], opts.PeerID[:])
peerIDMismatch(resHandshake, opts) == resHandshake.peerID # opts.PeerID

\* peformHandshake after the write: "ok", "err" or "panic", on the bytes
\* the remote peer answers.
readAndCompare(response, opts) ==
    LET res == readHanshake(response)
    IN  IF res.kind # "ok" THEN res.kind
        ELSE IF infoHashMismatch(res.h, opts) THEN "err"
        ELSE IF peerIDMismatch(res.h, opts) THEN "err"
        ELSE "ok"

\* The request that peformHandshake writes.
requestOf(opts) == serialize(newHandshake(opts.InfoHash, opts.PeerID))

(***************************************************************************)
(* The remote peers.                                                       *)
(***************************************************************************)
connectOpts == [InfoHash |-> bytesUpTo(sha1Size),
                PeerID |-> [i \in 1..sha1Size |-> 1],
                Pieces |-> 10]

otherHash == [i \in 1..sha1Size |-> 2]

\* What a remote peer answers to the handshake: the expected handshake,
\* one with another info-hash, one with another peer id, nothing, a
\* pstrlen of 0, a handshake cut short, the single byte 208.
ResponseChoices ==
    {requestOf(connectOpts),
     serialize(newHandshake(otherHash, connectOpts.PeerID)),
     serialize(newHandshake(connectOpts.InfoHash, otherHash)),
     <<>>, <<0>>, SubSeq(requestOf(connectOpts), 1, 40), <<208>>}

\* The network for one remote peer: the dial fails, the write fails, or
\* the peer answers.
NetworkChoices ==
    {[dial |-> FALSE, write |-> FALSE, response |-> <<>>],
     [dial |-> TRUE, write |-> FALSE, response |-> <<>>]}
        \cup {[dial |-> TRUE, write |-> TRUE, response |-> r] :
                 r \in ResponseChoices}

\* The i-th *tracker.Peer of the list.
remotePeer(i, net) == [IP |-> <<10, 0, 0, i>>, Port |-> 6881, net |-> net]

ConnectInit ==
    /\ SessionInit
    /\ piece = <<>>
    /\ rwmutex = <<>>
    /\ \E nets \in SeqsUpTo(NetworkChoices, MaxRemotePeers) :
           input = [remotePeers |-> [i \in DOMAIN nets |-> remotePeer(i, nets[i])],
                    opts |-> connectOpts]
    /\ output = <<>>
    /\ goroutines = [i \in DOMAIN input.remotePeers |->
                        [pc |-> "dial", peer |-> <<>>]]
    /\ peerChan = <<>>
    /\ panicked = FALSE

\* connectToPeer: net.DialTimeout for remote peer i.
Dial(i) ==
    /\ ~panicked
    /\ goroutines[i].pc = "dial"
    /\ goroutines' =
           [goroutines EXCEPT ![i] =
               IF input.remotePeers[i].net.dial
               THEN [pc |-> "write",
                     peer |-> <<newPeer(input.remotePeers[i], input.opts)>>]
               ELSE [pc |-> "done", peer |-> <<>>]]
    /\ UNCHANGED <<input, output, sessionVars, piece, rwmutex, peerChan, panicked>>

\* peformHandshake: p.conn.Write(reqHandshake.serialize()).
WriteHandshake(i) ==
    /\ ~panicked
    /\ goroutines[i].pc = "write"
    /\ goroutines' =
           [goroutines EXCEPT ![i].pc =
               IF input.remotePeers[i].net.write THEN "read" ELSE "done"]
    /\ UNCHANGED <<input, output, sessionVars, piece, rwmutex, peerChan, panicked>>

\* peformHandshake: readHanshake(p.conn) and the two comparisons.
ReadHandshake(i) ==
    LET r == readAndCompare(input.remotePeers[i].net.response, input.opts)
    IN  /\ ~panicked
        /\ goroutines[i].pc = "read"
        /\ goroutines' = [goroutines EXCEPT ![i].pc =
                             IF r = "ok" THEN "send"
                             ELSE IF r = "panic" THEN "panic" ELSE "done"]
        /\ panicked' = (r = "panic")
        /\ UNCHANGED <<input, output, sessionVars, piece, rwmutex, peerChan>>

\* go peer.Start(); peerChan <- peer.  The channel has room for every
\* remote peer, the send never blocks.
SendPeer(i) ==
    /\ ~panicked
    /\ goroutines[i].pc = "send"
    /\ peerChan' = Append(peerChan, goroutines[i].peer[1])
    /\ goroutines' = [goroutines EXCEPT ![i].pc = "done"]
    /\ UNCHANGED <<input, output, sessionVars, piece, rwmutex, panicked>>

\* wg.Wait(), close(peerChan), the loop over the channel and the return.
ConnectReturn ==
    /\ ~panicked
    /\ output = <<>>
    /\ \A i \in DOMAIN goroutines : goroutines[i].pc = "done"
    /\ output' = <<[connectedPeers |-> peerChan, err |-> FALSE]>>
    /\ peerChan' = <<>>
    /\ UNCHANGED <<input, sessionVars, piece, rwmutex, goroutines, panicked>>

ConnectNext ==
    \/ \E i \in DOMAIN goroutines : Dial(i)
    \/ \E i \in DOMAIN goroutines : WriteHandshake(i)
    \/ \E i \in DOMAIN goroutines : ReadHandshake(i)
    \/ \E i \in DOMAIN goroutines : SendPeer(i)
    \/ ConnectReturn

SpecConnect == ConnectInit /\ [][ConnectNext]_vars

(***************************************************************************)
(* Properties of ConnectToPeers.                                           *)
(***************************************************************************)
\* The bytes are a handshake message that carries the given info-hash and
\* peer id.
handshakeOf(bytes, opts) ==
    /\ Len(bytes) >= 1
    /\ bytes[1] # 0
    /\ Len(bytes) >= 49 + bytes[1]
    /\ SubSeq(bytes, bytes[1] + 10, bytes[1] + 29) = opts.InfoHash
    /\ SubSeq(bytes, bytes[1] + 30, bytes[1] + 49) = opts.PeerID

\* The remote peers whose dial and handshake both succeed.
reachablePeers ==
    {i \in DOMAIN input.remotePeers :
        /\ input.remotePeers[i].net.dial
        /\ input.remotePeers[i].net.write
        /\ handshakeOf(input.remotePeers[i].net.response, input.opts)}

\* C27: connecting to a list of tracker-reported peers always returns
\* success; the returned set contains exactly the peers whose dial and
\* handshake both succeeded (a peer whose handshake response has another
\* info-hash or peer id is not in it), and the failure of one peer neither
\* aborts nor removes the connection attempt of another.
C27_ConnectToPeers ==
    /\ ~panicked
    /\ output # <<>> =>
           /\ output[1].err = FALSE
           /\ Len(output[1].connectedPeers) = Cardinality(reachablePeers)
           /\ {output[1].connectedPeers[k].Addr :
                   k \in DOMAIN output[1].connectedPeers}
                  = {addrOf(input.remotePeers[i]) : i \in reachablePeers}

(***************************************************************************)
(* Part 11: the framing of peer messages (package torrent, message.go).    *)
(* A *message is <<>> when nil and <<m>> when it points to the message m.  *)
(***************************************************************************)
\* Largest number of messages written to a connection.
MaxFrames == 3

\* The four bytes of v with the least significant byte first.
putUint32LittleEndian(v) ==
    <<v % 256, (v \div 256) % 256, (v \div 65536) % 256,
      (v \div 16777216) % 256>>

\* binary.BigEndian.PutUint32
PutUint32(v) ==
    <<(v \div 16777216) % 256, (v \div 65536) % 256, (v \div 256) % 256,
      v % 256>>

\* binary.BigEndian.Uint32, as binary.Read(r, binary.BigEndian, &length)
\* decodes four bytes.
BigEndianUint32(b) == ((b[1] * 256 + b[2]) * 256 + b[3]) * 256 + b[4]

\* marshal: <length prefix><message id><payload>, four zero bytes for a
\* nil message.
marshal(m) ==
    IF m = <<>> THEN zeroBytes(4)
    ELSE PutUint32(Len(m[1].payload) + 1) \o <<Byte(m[1].id)>> \o m[1].payload

\* unmarshalMessage on the bytes r left on the reader: the message (msg),
\* whether an error was returned, and the bytes left after the call.
unmarshalMessage(r) ==
    IF Len(r) < 4 THEN [msg |-> <<>>, err |-> TRUE, rest |-> <<>>]
    ELSE LET length == BigEndianUint32(SubSeq(r, 1, 4))
             body == SubSeq(r, 5, Len(r))
         IN  IF length = 0 THEN [msg |-> <<>>, err |-> FALSE, rest |-> body]
             ELSE IF Len(body) < length
                 THEN [msg |-> <<>>, err |-> TRUE, rest |-> <<>>]
             ELSE [msg |-> <<[id |-> body[1],
                              payload |-> SubSeq(body, 2, length)]>>,
                   err |-> FALSE,
                   rest |-> SubSeq(body, length + 1, Len(body))]

msgChoke == 0

msgUnchoke == 1

msgInterested == 2

msgNotInterested == 3

msgHave == 4

msgBitfield == 5

msgRequest == 6

msgPiece == 7

msgCancel == 8

messageChoke == <<[id |-> msgChoke, payload |-> <<>>]>>

messageHave(index) == <<[id |-> msgHave, payload |-> PutUint32(index)]>>

messageRequest(index, begin, length) ==
    <<[id |-> msgRequest,
       payload |-> PutUint32(index) \o PutUint32(begin) \o PutUint32(length)]>>

messagePiece(index, begin, block) ==
    <<[id |-> msgPiece,
       payload |-> PutUint32(index) \o PutUint32(begin) \o block]>>

\* The messages written: a keep-alive, messages without payload, with a
\* short payload, with a payload of 255 bytes (length prefix 0 0 1 0) and
\* with an id that is no message type.
MessageChoices ==
    {<<>>, messageChoke, messageHave(258), messageRequest(1, BlockSize, 5),
     messagePiece(0, 0, [i \in 1..247 |-> 0]),
     <<[id |-> 255, payload |-> <<0, 0, 0, 0>>]>>}

\* output: the bytes written to the connection and not yet read (stream),
\* the number of messages written (sent), whether the writer has closed
\* the connection, and what the reads returned (reads).
FramesInit ==
    /\ SessionInit
    /\ NoObjects
    /\ input \in SeqsUpTo(MessageChoices, MaxFrames)
    /\ output = [stream |-> <<>>, sent |-> 0, closed |-> FALSE, reads |-> <<>>]

\* sendMessage: p.conn.Write(message.marshal()) of the next message.
SendMessage ==
    /\ ~output.closed
    /\ output.sent < Len(input)
    /\ output' = [output EXCEPT !.stream = @ \o marshal(input[output.sent + 1]),
                                !.sent = @ + 1]
    /\ UNCHANGED <<input, sessionVars, objectVars>>

\* The writer closes the connection.
CloseConn ==
    /\ ~output.closed
    /\ output.sent = Len(input)
    /\ output' = [output EXCEPT !.closed = TRUE]
    /\ UNCHANGED <<input, sessionVars, objectVars>>

\* Peer.Read: unmarshalMessage(p.conn).  The read waits while the
\* connection is open and holds no byte.
Read ==
    LET r == unmarshalMessage(output.stream)
    IN  /\ output.stream # <<>> \/ output.closed
        /\ \A k \in DOMAIN output.reads : ~output.reads[k].err
        /\ output' = [output EXCEPT !.stream = r.rest,
                                    !.reads = Append(@, [msg |-> r.msg,
                                                         err |-> r.err])]
        /\ UNCHANGED <<input, sessionVars, objectVars>>

FramesNext == SendMessage \/ CloseConn \/ Read

SpecFrames == FramesInit /\ [][FramesNext]_vars

\* The frame of a message: the 4-byte big-endian length (payload length
\* + 1), the id byte and the payload; four zero bytes for the nil message.
frameOf(m) ==
    IF m = <<>> THEN <<0, 0, 0, 0>>
    ELSE LET n == Len(m[1].payload) + 1
         IN  <<n \div 16777216, (n \div 65536) % 256, (n \div 256) % 256,
               n % 256, m[1].id>> \o m[1].payload

\* The frames of the messages i..j one after the other.
RECURSIVE framesOf(_, _)
framesOf(i, j) ==
    IF i > j THEN <<>> ELSE frameOf(input[i]) \o framesOf(i + 1, j)

\* The number of reads that returned a message or a keep-alive.
goodReads ==
    Cardinality({k \in DOMAIN output.reads : ~output.reads[k].err})

\* C29: reading a stream that is the concatenation of marshalled frames
\* returns the same sequence of messages, one per read; a message marshals
\* to the 4-byte big-endian length (payload length + 1), the id byte and
\* the payload and unmarshals to the same id and payload; a nil message
\* marshals to four zero bytes, and four zero bytes unmarshal to the nil
\* (keep-alive) value and exactly those four bytes are consumed.
C29_Frames ==
    /\ goodReads <= output.sent
    /\ \A k \in 1..goodReads : output.reads[k].msg = input[k]
    /\ \A k \in DOMAIN output.reads :
           output.reads[k].err => k = output.sent + 1 /\ output.closed
    /\ output.stream = framesOf(goodReads + 1, output.sent)

\* Three messages, among them a keep-alive followed by a message with a
\* payload, written and read back one by one.
C29_Witness ==
    /\ Len(input) = 3
    /\ input[2] = <<>>
    /\ input[3] # <<>>
    /\ input[3][1].payload # <<>>
    /\ goodReads = 3
    /\ output.stream = <<>>

(***************************************************************************)
(* The wake-up of the scheduling loop (part 1, specification Spec).        *)
(***************************************************************************)
\* The step is a wake-up of loop l: its timer branch has run.
wakeUp(l) == loops[l].pc = "select" /\ loops'[l].pc = "compute"

\* The announceToTracker goroutines for tracker t started by the step.
dispatched(t) == {c \in calls' \ calls : c.t = t}

\* C30: at each wake-up of the scheduling loop, exactly the trackers that
\* are idle and whose next announce time has passed are moved to
\* Announcing and get one announce dispatched; every other tracker (not
\* yet due, or already announcing) keeps its interval, next announce time,
\* failure count and in-flight flag.
C30_WakeUp ==
    [][\A l \in LoopIds : wakeUp(l) =>
          \A t \in Trackers :
              IF ~trackers[t].isAnnouncing
                     /\ Less(trackers[t].nextAnnounceTime, now)
              THEN /\ trackers'[t] = [trackers[t] EXCEPT !.isAnnouncing = TRUE]
                   /\ Cardinality(dispatched(t)) = 1
                   /\ \A c \in dispatched(t) : c.loop = 0
              ELSE /\ trackers'[t] = trackers[t]
                   /\ dispatched(t) = {}]_vars

\* After a wake-up: a periodic announce is in flight for one tracker while
\* another tracker, idle and not yet due, has none.
C30_Witness ==
    /\ \E l \in LoopIds : loops[l].pc = "compute"
    /\ \E c \in calls :
           /\ c.loop = 0
           /\ trackers[c.t].isAnnouncing
           /\ \E t \in Trackers :
                  /\ t # c.t
                  /\ ~trackers[t].isAnnouncing
                  /\ Less(now, trackers[t].nextAnnounceTime)
                  /\ \A d \in calls : d.t # t

(***************************************************************************)
(* The session started once and never stopped, followed over two advances *)
(* of the clock: the steps of announceLoop after the started broadcast and *)
(* of the announceToTracker goroutines it dispatches.                      *)
(***************************************************************************)
MaxRunningTicks == 2

StartOnce == loops[1].pc = "none" /\ Start

TickRunning == advance(MaxRunningTicks)

RunningNext ==
    \/ StartOnce
    \/ LoopWaitDone(1)
    \/ LoopCompute(1)
    \/ LoopTimer(1)
    \/ \E c \in calls : AnnounceFail(c)
    \/ \E c \in calls : \E raw \in RawIntervals : AnnounceSucceed(c, raw)
    \/ TickRunning

SpecRunning == Init /\ [][RunningNext]_vars

\* C31: the scheduling loop sleeps until the earliest next announce time
\* among idle trackers: in a running, non-cancelled session a tracker that
\* is idle and whose next announce time has elapsed is dispatched at the
\* loop's next step, so a loop waiting in its select has a timer that has
\* already expired, also when the tracker became idle while the loop was
\* asleep.
C31_SleepsToEarliest ==
    ~ctxDone =>
        \A l \in LoopIds :
            (loops[l].pc = "select" /\ dueTrackers # {}) =>
                Leq(loops[l].deadline, now)

\* The data held by the blocks of p one after the other, a block without
\* data contributing nothing.
RECURSIVE blockDataFrom(_, _)
blockDataFrom(p, i) ==
    IF i > Len(p.Blocks) THEN <<>>
    ELSE (IF p.Blocks[i].Data = <<>> THEN <<>> ELSE p.Blocks[i].Data[1])
             \o blockDataFrom(p, i + 1)

\* C32: after any sequence of addBlock calls, including the re-delivery of
\* a block that was already accepted, IsComplete returns true only if
\* every block of the piece holds data, and assembleData then contains
\* every block's payload.
C32_CompleteHasAllBlocks ==
    /\ (output[1].op = "IsComplete" /\ output[1].ret = TRUE) =>
           \A i \in DOMAIN piece.Blocks : piece.Blocks[i].Data # <<>>
    /\ (output[1].op = "AssembleData" /\ output[1].ret # <<>>) =>
           /\ \A i \in DOMAIN piece.Blocks : piece.Blocks[i].Data # <<>>
           /\ output[1].ret[1] = joinRuns(blockDataFrom(piece, 1))

\* The indices of the blocks that k successive calls of NextRequest on p
\* return.
RECURSIVE requestedBy(_, _)
requestedBy(p, k) ==
    IF k = 0 THEN {}
    ELSE LET r == NextRequest(p)
         IN  (IF r.block = <<>> THEN {} ELSE {r.block[1].Index})
                 \cup requestedBy(r.piece, k - 1)

\* The effect of resetRequests on the markers, the state, the block data
\* and the downloaded counter.
resetFrame ==
    output[1].op = "ResetRequests" =>
        LET before == output[1].before
        IN  /\ piece.Requested = {}
            /\ piece.State = IF before.State = PieceStatePending
                             THEN PieceStateNone ELSE before.State
            /\ piece.Blocks = before.Blocks
            /\ piece.Downloaded = before.Downloaded

\* C33: resetRequests clears every requested marker and changes the state
\* from Pending to None, leaves a None or Complete state as it is, and
\* leaves block data and the downloaded counter unchanged; afterwards
\* nextRequest can again return any block that has no data: one call per
\* block returns exactly the blocks without data.
C33_ResetRequests ==
    /\ resetFrame
    /\ output[1].op = "ResetRequests" =>
           requestedBy(piece, Len(piece.Blocks)) =
               {piece.Blocks[i].Index :
                    i \in {j \in DOMAIN piece.Blocks :
                               piece.Blocks[j].Data = <<>>}}

(***************************************************************************)
(* NewPiece on its own, for lengths around the multiples of the block      *)
(* size.  input is the argument list, piece the piece returned.            *)
(***************************************************************************)
\* The largest number of full blocks in a piece length.
MaxBlocks == 4

\* The lengths handed to NewPiece: a multiple of the block size, one or
\* two bytes more, one or two bytes less.
NewPieceLengths ==
    {k * BlockSize + d : k \in 0..MaxBlocks, d \in {0, 1, 2}}
        \cup {k * BlockSize - d : k \in 1..MaxBlocks, d \in {1, 2}}

NewPieceInit ==
    /\ SessionInit
    /\ NoObjects
    /\ input \in {[index |-> x, length |-> l, hash |-> sha1Sum(makeBytes(l))] :
                      x \in 0..2, l \in NewPieceLengths}
    /\ output = <<>>

CallNewPiece ==
    /\ output = <<>>
    /\ piece' = NewPiece(input.index, input.length, input.hash)
    /\ output' = <<"NewPiece">>
    /\ UNCHANGED <<input, sessionVars, connectVars, rwmutex>>

NewPieceNext == CallNewPiece

SpecNewPiece == NewPieceInit /\ [][NewPieceNext]_vars

\* The sum of the lengths of the blocks from i on.
RECURSIVE blockLengthsFrom(_, _)
blockLengthsFrom(p, i) ==
    IF i > Len(p.Blocks) THEN 0
    ELSE p.Blocks[i].Length + blockLengthsFrom(p, i + 1)

\* C34: a piece of length L created by NewPiece has ceil(L / 16384)
\* blocks; block i has index i, begins at offset i * 16384 and has length
\* 16384, except that the final block has length L mod 16384 when that is
\* not zero; the blocks are contiguous, do not overlap, and their lengths
\* sum to L.
C34_NewPieceBlocks ==
    output = <<"NewPiece">> =>
        LET L == input.length
            n == Len(piece.Blocks)
        IN  /\ n * 16384 >= L
            /\ n > 0 => (n - 1) * 16384 < L
            /\ \A i \in 0..(n - 1) :
                   /\ piece.Blocks[i + 1].Index = i
                   /\ piece.Blocks[i + 1].Begin = i * 16384
                   /\ piece.Blocks[i + 1].Length =
                          IF i = n - 1 /\ L % 16384 # 0 THEN L % 16384
                          ELSE 16384
                   /\ piece.Blocks[i + 1].Length > 0
                   /\ i > 0 => piece.Blocks[i + 1].Begin =
                                   piece.Blocks[i].Begin + piece.Blocks[i].Length
            /\ n > 0 => piece.Blocks[n].Begin + piece.Blocks[n].Length = L
            /\ blockLengthsFrom(piece, 1) = L
            /\ piece.Length = L

\* A piece of two full blocks and a final block of one byte.
C34_Witness ==
    /\ output = <<"NewPiece">>
    /\ input.length = 2 * 16384 + 1
    /\ Len(piece.Blocks) = 3
    /\ piece.Blocks[2].Length = 16384
    /\ piece.Blocks[3].Begin = 32768
    /\ piece.Blocks[3].Length = 1

\* A piece whose length is a multiple of the block size: the final block
\* is a full block.
C34_WitnessMultiple ==
    /\ output = <<"NewPiece">>
    /\ input.length = 2 * 16384
    /\ Len(piece.Blocks) = 2
    /\ piece.Blocks[2].Length = 16384

(***************************************************************************)
(* Unmarshal on arbitrary input: the bytes handed to the reader are drawn  *)
(* from the type bytes, digits, signs, the colon and a letter.             *)
(***************************************************************************)
\* Length of the input handed to Unmarshal.
MaxInputLen == 4

\* 'x'
chX == 120

InputBytes ==
    {bInteger, bList, bDict, bTerminator, chZero, chZero + 1, chZero + 2,
     chColon, chMinus, chPlus, chX}

UnmarshalInit ==
    /\ SessionInit
    /\ NoObjects
    /\ input \in SeqsUpTo(InputBytes, MaxInputLen)
    /\ output = <<>>

\* NewUnmarshaller(strings.NewReader(input)).Unmarshal()
CallUnmarshalInput ==
    /\ output = <<>>
    /\ output' = <<Unmarshal(input)>>
    /\ UNCHANGED <<input, sessionVars, objectVars>>

UnmarshalNext == CallUnmarshalInput

SpecUnmarshal == UnmarshalInit /\ [][UnmarshalNext]_vars

\* The bytes of s before its first colon, all of s when it has none.
RECURSIVE lengthPrefix(_)
lengthPrefix(s) ==
    IF s = <<>> \/ Head(s) = chColon THEN <<>>
    ELSE <<Head(s)>> \o lengthPrefix(Tail(s))

\* A string length as bencode writes it: one or more decimal digits.
wellFormedLength(s) ==
    s # <<>> /\ \A i \in DOMAIN s : IsDigit(s[i])

\* C35: Unmarshal returns an error and a nil value whenever the input is
\* empty or its first byte is not 'i', 'l', 'd' or a decimal digit; a value
\* is decoded as a byte string only when its first byte is a digit, and a
\* negative or malformed length is an error.
C35_UnmarshalErrors ==
    output # <<>> =>
        LET r == output[1]
        IN  /\ (input = <<>>
                  \/ ~(Head(input) \in {bInteger, bList, bDict}
                          \/ IsDigit(Head(input))))
                   => r.err /\ r.val = <<>>
            /\ (~r.err /\ r.val[1] = "str") => IsDigit(Head(input))
            /\ (input # <<>> /\ Head(input) \notin {bInteger, bList, bDict}
                    /\ ~wellFormedLength(lengthPrefix(input)))
                   => r.err
            /\ r.err => r.val = <<>>

\* The same with the inputs that begin with a sign set aside.
unmarshalErrorsUnsigned ==
    (input # <<>> /\ Head(input) \in {chMinus, chPlus}) \/ C35_UnmarshalErrors

(***************************************************************************)
(* Part 13: the read loop of a peer connection (package torrent, peer.go). *)
(* input is the sequence of messages the remote peer writes before it      *)
(* closes the connection; output holds the Peer (peer), the bytes not yet  *)
(* read (stream), the number of reads made (n), what the last read         *)
(* returned (msg, err), the Peer before it (before), and whether           *)
(* Peer.Start is still running.                                            *)
(***************************************************************************)
\* Number of messages the remote peer writes.
MaxMessages == 3

messageUnchoke == <<[id |-> msgUnchoke, payload |-> <<>>]>>

messageInterested == <<[id |-> msgInterested, payload |-> <<>>]>>

messageNotInterested == <<[id |-> msgNotInterested, payload |-> <<>>]>>

\* A bitfield message: the id and the bytes of the bitfield.
messageBitfield(payload) == <<[id |-> msgBitfield, payload |-> payload]>>

\* The messages received: a keep-alive, the four state messages, have,
\* bitfield messages of the expected and of another length, request,
\* piece, and an id that is no message type.
ReceivedChoices ==
    {<<>>, messageChoke, messageUnchoke, messageInterested,
     messageNotInterested, messageHave(3), messageBitfield(<<255, 192>>),
     messageBitfield(<<1>>), messageRequest(1, 0, 5),
     messagePiece(0, 0, <<7, 7>>), <<[id |-> 255, payload |-> <<0>>]>>}

\* The switch of readMessages with unchoke handled as choke.
dispatchUnchokeAsChoke(p, msg) ==
    IF msg.id = msgBitfield THEN [p EXCEPT !.bitfield = msg.payload]
    ELSE IF msg.id \in {msgChoke, msgUnchoke}
        THEN [p EXCEPT !.state.peerChoking = TRUE]
    ELSE IF msg.id = msgInterested THEN [p EXCEPT !.state.peerInterested = TRUE]
    ELSE IF msg.id = msgNotInterested
        THEN [p EXCEPT !.state.peerInterested = FALSE]
    ELSE p

\* readMessages: switch msg.id.
dispatch(p, msg) ==
    IF msg.id = msgBitfield THEN [p EXCEPT !.bitfield = msg.payload]
    ELSE IF msg.id = msgChoke THEN [p EXCEPT !.state.peerChoking = TRUE]
    ELSE IF msg.id = msgUnchoke THEN [p EXCEPT !.state.peerChoking = FALSE]
    ELSE IF msg.id = msgInterested THEN [p EXCEPT !.state.peerInterested = TRUE]
    ELSE IF msg.id = msgNotInterested
        THEN [p EXCEPT !.state.peerInterested = FALSE]
    ELSE p

\* The bytes the remote peer writes: its messages one after the other.
RECURSIVE marshalAll(_)
marshalAll(msgs) ==
    IF msgs = <<>> THEN <<>> ELSE marshal(Head(msgs)) \o marshalAll(Tail(msgs))

\* The Peer that connectToPeer returns, with Peer.Start running.
PeerInit ==
    /\ SessionInit
    /\ NoObjects
    /\ input \in SeqsUpTo(ReceivedChoices, MaxMessages)
    /\ output = [peer |-> newPeer(remotePeer(1, <<>>), connectOpts),
                 stream |-> marshalAll(input), n |-> 0, msg |-> <<>>,
                 err |-> FALSE, before |-> <<>>, running |-> TRUE]

\* One turn of the loop of readMessages: p.Read() and the switch; a read
\* error ends the loop and Start's deferred p.conn.Close() runs.  The read
\* fails when the remote peer has closed the connection or the read
\* deadline passes with less than a whole message on the connection.
ReadMessage ==
    LET r == unmarshalMessage(output.stream)
        p == output.peer
    IN  /\ output.running
        /\ output' =
               [peer |-> IF r.err THEN [p EXCEPT !.conn = "closed"]
                         ELSE IF r.msg = <<>> THEN p
                         ELSE dispatch(p, r.msg[1]),
                stream |-> r.rest, n |-> output.n + 1, msg |-> r.msg,
                err |-> r.err, before |-> p, running |-> ~r.err]
        /\ UNCHANGED <<input, sessionVars, objectVars>>

PeerNext == ReadMessage

SpecPeer == PeerInit /\ [][PeerNext]_vars

\* C36: a peer connection starts with am-choking = true, am-interested =
\* false, peer-choking = true, peer-interested = false; in the read loop
\* choke and unchoke set peer-choking to true and false, interested and
\* not-interested set peer-interested to true and false, a bitfield
\* message replaces the stored peer bitfield, and keep-alive, have, piece
\* and unknown messages change none of the four flags or the bitfield; no
\* received message ever changes am-choking or am-interested.
C36_PeerState ==
    LET s == output.peer.state
        b == output.before
        id == output.msg[1].id
    IN  /\ output.n = 0 =>
               /\ s.amChoking = TRUE
               /\ s.amInterested = FALSE
               /\ s.peerChoking = TRUE
               /\ s.peerInterested = FALSE
        /\ s.amChoking = TRUE
        /\ s.amInterested = FALSE
        /\ (output.n > 0 /\ ~output.err /\ output.msg = <<>>) =>
               s = b.state /\ output.peer.bitfield = b.bitfield
        /\ (output.n > 0 /\ ~output.err /\ output.msg # <<>>) =>
               /\ output.msg[1] = input[output.n][1]
               /\ s.peerChoking = IF id = 0 THEN TRUE
                                  ELSE IF id = 1 THEN FALSE
                                  ELSE b.state.peerChoking
               /\ s.peerInterested = IF id = 2 THEN TRUE
                                     ELSE IF id = 3 THEN FALSE
                                     ELSE b.state.peerInterested
               /\ output.peer.bitfield = IF id = 5 THEN output.msg[1].payload
                                         ELSE b.bitfield

\* Unchoke, interested and a bitfield have been received one after the
\* other.
C36_Witness ==
    /\ output.n = 3
    /\ ~output.err
    /\ input = <<messageUnchoke, messageInterested,
                 messageBitfield(<<255, 192>>)>>
    /\ output.peer.state = [amChoking |-> TRUE, amInterested |-> FALSE,
                            peerChoking |-> FALSE, peerInterested |-> TRUE]
    /\ output.peer.bitfield = <<255, 192>>
    /\ output.before.bitfield = <<0, 0>>

\* Not-interested after interested, and choke after unchoke.
C36_WitnessBack ==
    /\ output.n = 3
    /\ input = <<messageUnchoke, messageInterested, messageNotInterested>>
    /\ output.before.state.peerInterested
    /\ ~output.peer.state.peerInterested
    /\ ~output.peer.state.peerChoking

(***************************************************************************)
(* Part 14: the methods of a Piece called from several goroutines at once  *)
(* (package torrent, piece.go), with the sync.RWMutex embedded in the      *)
(* Piece.                                                                  *)
(*                                                                         *)
(* rwmutex is the state of the lock: the number of goroutines that hold    *)
(* it shared (readers), the goroutine that holds it exclusively (writer)   *)
(* and the goroutine that has called Lock and waits for the readers to     *)
(* leave (pending), 0 for none.  As sync.RWMutex does, a Lock that waits   *)
(* keeps every later RLock waiting until the writer has unlocked, and      *)
(* Unlock admits all the readers that wait.                                *)
(*                                                                         *)
(* A goroutine is the method it runs, the steps it has still to take       *)
(* (todo), whether it waits in RLock ("r") or in Lock ("w"), the result of *)
(* its last IsComplete (c) and what the method returned (ret).             *)
(***************************************************************************)
\* Number of goroutines that call a method of the piece.
MaxGoroutines == 2

\* IsComplete: p.RLock(); defer p.RUnlock(); return p.Length == p.Downloaded
IsCompleteSteps == <<"RLock", "read", "RUnlock">>

\* AssembleData: p.RLock(); defer p.RUnlock(); p.IsComplete(); the loop.
AssembleDataSteps == <<"RLock">> \o IsCompleteSteps \o <<"assemble", "RUnlock">>

\* Verify: p.RLock(); defer p.RUnlock(); p.IsComplete(), the early return,
\* p.AssembleData(), the comparison of the hash.
VerifySteps ==
    <<"RLock">> \o IsCompleteSteps \o <<"branch">> \o AssembleDataSteps
        \o <<"hash", "RUnlock">>

\* AddBlock, MarkRequested, NextRequest, ResetRequests: p.Lock(); defer
\* p.Unlock(); the body.
WriterSteps == <<"Lock", "write", "Unlock">>

Writers == {"AddBlock", "MarkRequested", "NextRequest", "ResetRequests"}

MethodChoices == {"Verify", "AssembleData", "IsComplete"} \cup Writers

stepsOf(method) ==
    IF method = "Verify" THEN VerifySteps
    ELSE IF method = "AssembleData" THEN AssembleDataSteps
    ELSE IF method = "IsComplete" THEN IsCompleteSteps
    ELSE WriterSteps

\* The body of a writing method, on the one block of the piece.
writeOf(method, p) ==
    IF method = "AddBlock"
    THEN AddBlock(p, 0, blockPayload(7, 7, BlockSize)).piece
    ELSE IF method = "MarkRequested" THEN MarkRequested(p, 0)
    ELSE IF method = "NextRequest" THEN NextRequest(p).piece
    ELSE ResetRequests(p)

\* A piece of one block and, for each goroutine, the method it calls.
LockInit ==
    /\ SessionInit
    /\ input \in [1..MaxGoroutines -> MethodChoices]
    /\ output = <<>>
    /\ piece = NewPiece(0, BlockSize, sha1Sum(blockPayload(7, 7, BlockSize)))
    /\ rwmutex = [readers |-> 0, writer |-> 0, pending |-> 0]
    /\ goroutines = [g \in 1..MaxGoroutines |->
                        [method |-> input[g], todo |-> stepsOf(input[g]),
                         wait |-> "", c |-> FALSE, ret |-> <<>>]]
    /\ peerChan = <<>>
    /\ panicked = FALSE

next(g) == Head(goroutines[g].todo)

ready(g, step) ==
    /\ goroutines[g].todo # <<>>
    /\ goroutines[g].wait = ""
    /\ next(g) = step

\* RWMutex.RLock: the lock is taken shared unless a writer holds it or
\* waits for it; then the goroutine waits.
RLock(g) ==
    /\ ready(g, "RLock")
    /\ IF rwmutex.writer = 0 /\ rwmutex.pending = 0
       THEN /\ rwmutex' = [rwmutex EXCEPT !.readers = @ + 1]
            /\ goroutines' = [goroutines EXCEPT ![g].todo = Tail(@)]
       ELSE /\ goroutines' = [goroutines EXCEPT ![g].wait = "r"]
            /\ UNCHANGED rwmutex
    /\ UNCHANGED <<input, output, sessionVars, piece, peerChan, panicked>>

\* RWMutex.RUnlock
RUnlock(g) ==
    /\ ready(g, "RUnlock")
    /\ rwmutex' = [rwmutex EXCEPT !.readers = @ - 1]
    /\ goroutines' = [goroutines EXCEPT ![g].todo = Tail(@)]
    /\ UNCHANGED <<input, output, sessionVars, piece, peerChan, panicked>>

\* RWMutex.Lock: once no other writer holds or waits for the lock, later
\* readers are kept out; the lock is taken when no reader holds it, and
\* the goroutine waits for the readers otherwise.
Lock(g) ==
    /\ ready(g, "Lock")
    /\ rwmutex.writer = 0
    /\ rwmutex.pending = 0
    /\ IF rwmutex.readers = 0
       THEN /\ rwmutex' = [rwmutex EXCEPT !.writer = g]
            /\ goroutines' = [goroutines EXCEPT ![g].todo = Tail(@)]
       ELSE /\ rwmutex' = [rwmutex EXCEPT !.pending = g]
            /\ goroutines' = [goroutines EXCEPT ![g].wait = "w"]
    /\ UNCHANGED <<input, output, sessionVars, piece, peerChan, panicked>>

\* The last reader has left: the waiting writer takes the lock.
LockAcquire(g) ==
    /\ goroutines[g].wait = "w"
    /\ rwmutex.pending = g
    /\ rwmutex.readers = 0
    /\ rwmutex' = [rwmutex EXCEPT !.writer = g, !.pending = 0]
    /\ goroutines' = [goroutines EXCEPT ![g].wait = "", ![g].todo = Tail(@)]
    /\ UNCHANGED <<input, output, sessionVars, piece, peerChan, panicked>>

\* RWMutex.Unlock: the readers that wait take the lock.
Unlock(g) ==
    /\ ready(g, "Unlock")
    /\ LET woken == {h \in DOMAIN goroutines : goroutines[h].wait = "r"}
       IN  /\ rwmutex' = [rwmutex EXCEPT !.writer = 0,
                                         !.readers = Cardinality(woken)]
           /\ goroutines' =
                  [h \in DOMAIN goroutines |->
                      IF h = g THEN [goroutines[h] EXCEPT !.todo = Tail(@)]
                      ELSE IF h \in woken
                          THEN [goroutines[h] EXCEPT !.wait = "",
                                                     !.todo = Tail(@)]
                      ELSE goroutines[h]]
    /\ UNCHANGED <<input, output, sessionVars, piece, peerChan, panicked>>

\* The statements of a method between its lock operations.
Run(g) ==
    LET t == goroutines[g]
    IN  /\ t.todo # <<>>
        /\ t.wait = ""
        /\ next(g) \in {"read", "branch", "assemble", "hash", "write"}
        /\ piece' = IF next(g) = "write" THEN writeOf(t.method, piece)
                    ELSE piece
        /\ goroutines' = [goroutines EXCEPT ![g] =
               IF next(g) = "read"
               THEN [t EXCEPT !.todo = Tail(@), !.c = IsComplete(piece),
                              !.ret = <<IsComplete(piece)>>]
               ELSE IF next(g) = "branch"
               THEN IF t.c THEN [t EXCEPT !.todo = Tail(@)]
                    ELSE [t EXCEPT !.todo = <<"RUnlock">>, !.ret = <<FALSE>>]
               ELSE IF next(g) = "assemble"
               THEN [t EXCEPT !.todo = Tail(@),
                              !.ret = IF t.c
                                      THEN <<assembleLoop(piece,
                                                 makeBytes(piece.Length), 1)>>
                                      ELSE <<>>]
               ELSE IF next(g) = "hash"
               THEN [t EXCEPT !.todo = Tail(@),
                              !.ret = IF t.ret = <<>> THEN <<FALSE>>
                                      ELSE <<piece.Hash = sha1Sum(t.ret[1])>>]
               ELSE [t EXCEPT !.todo = Tail(@)]]
        /\ UNCHANGED <<input, output, sessionVars, rwmutex, peerChan, panicked>>

LockNext ==
    \/ \E g \in DOMAIN goroutines : RLock(g)
    \/ \E g \in DOMAIN goroutines : RUnlock(g)
    \/ \E g \in DOMAIN goroutines : Lock(g)
    \/ \E g \in DOMAIN goroutines : LockAcquire(g)
    \/ \E g \in DOMAIN goroutines : Unlock(g)
    \/ \E g \in DOMAIN goroutines : Run(g)

SpecLock == LockInit /\ [][LockNext]_vars

\* The goroutine has not returned from its method and cannot take a step:
\* it waits in RLock, it waits in Lock while a reader holds the lock, or
\* it is about to call Lock while another writer holds or waits for it.
blocked(g) ==
    /\ goroutines[g].todo # <<>>
    /\ \/ goroutines[g].wait = "r"
       \/ goroutines[g].wait = "w" /\ rwmutex.readers > 0
       \/ /\ goroutines[g].wait = ""
          /\ next(g) = "Lock"
          /\ rwmutex.writer # 0 \/ rwmutex.pending # 0

\* C38: calls to Verify, AssembleData and IsComplete on a piece always
\* return when run concurrently with AddBlock, MarkRequested, NextRequest
\* or ResetRequests on the same piece: the lock never deadlocks, that is,
\* as long as a call has not returned some goroutine can take a step, also
\* when a writer requests the exclusive lock while a reader that holds the
\* shared lock is about to acquire it again.
C38_NoDeadlock ==
    (\E g \in DOMAIN goroutines : goroutines[g].todo # <<>>) =>
        \E g \in DOMAIN goroutines :
            goroutines[g].todo # <<>> /\ ~blocked(g)

\* The same for goroutines that run only IsComplete and the writing
\* methods, which take the lock once.
noDeadlockWithoutNesting ==
    (\E g \in DOMAIN goroutines : input[g] \in {"Verify", "AssembleData"})
        \/ C38_NoDeadlock

\* C39: in every reachable state of a piece, after any sequence of
\* MarkRequested, NextRequest, AddBlock and ResetRequests, if at least one
\* block is marked requested then the piece state is not None (it is
\* Pending or Complete).
C39_RequestedNotNone ==
    piece.Requested # {} => piece.State \in {PieceStatePending, PieceStateComplete}

\* Only a NextRequest that returns a block brings a piece from a state
\* that satisfies C39 to one that does not: every other call either keeps
\* the property or started from a piece that already had a marker in
\* state None and left the markers as they were.
requestedNotNoneByMark ==
    (output[1].op = "NextRequest" /\ output[1].ret # <<>>)
        \/ (piece.Requested # {} /\ piece.Requested = output[1].before.Requested
               /\ output[1].before.State = PieceStateNone)
        \/ C39_RequestedNotNone

\* C40: every TCP connection opened while connecting to peers is
\* eventually either part of the returned connected-peer set or closed; no
\* connection whose handshake failed stays open: once ConnectToPeers has
\* returned, the connection of every remote peer that was dialled with
\* success is the connection of a returned Peer or is closed.
C40_ConnectionsClosed ==
    output # <<>> =>
        \A i \in DOMAIN goroutines :
            goroutines[i].peer # <<>> =>
                \/ \E k \in DOMAIN output[1].connectedPeers :
                       output[1].connectedPeers[k].Addr
                           = goroutines[i].peer[1].Addr
                \/ goroutines[i].peer[1].conn = "closed"

\* The read loop of a returned Peer: when Peer.Start has ended, after a
\* failed read, the connection is closed.
readLoopCloses ==
    ~output.running => output.err /\ output.peer.conn = "closed"

=============================================================================
